---- MODULE Spec2Model ----
(***************************************************************************)
(* Meross-js: the MQTT manager (command/acknowledgement correlation and    *)
(* push-notification dispatch), the device registry and the device factory.*)
(*                                                                         *)
(* JavaScript is single-threaded: every action below is one run-to-        *)
(* completion turn of the event loop (a public call up to its first await, *)
(* an MQTT event handler, a timer callback, or the continuation of an      *)
(* await on a user-supplied promise).                                      *)
(***************************************************************************)
EXTENDS Integers, Sequences, FiniteSets, TLC

\* ------------------------------------------------------------------ bounds
MaxCalls == 1       \* executeCommand calls issued in one behaviour
MaxTime == 1        \* milliseconds the clock may advance
MaxPushes == 1      \* PUSH notifications accepted for dispatch
MaxDiscoveries == 2   \* deviceDiscovery runs started in one behaviour
MaxObservers == 2   \* callbacks pushed onto pushCallbacks
MaxInFlight == 2    \* PUSH notifications accepted, and commands issued,
                    \* where they run concurrently

\* ------------------------------------------------------- program constants
ONLINE == 1
OFFLINE == 2
UNKNOWN == -1

SYSTEM_ABILITY == "Appliance.System.Ability"
CONTROL_BIND == "Appliance.Control.Bind"
CONTROL_UNBIND == "Appliance.Control.Unbind"
CONTROL_TOGGLE == "Appliance.Control.Toggle"
CONTROL_TOGGLEX == "Appliance.Control.ToggleX"
SYSTEM_DIGEST_HUB == "Appliance.Digest.Hub"

\* JavaScript's undefined in a string-valued slot, and in a number-valued slot
\* (a parameter the caller did not pass); NaN is what arithmetic on the
\* latter yields.  No genuine number of the model is negative.
Undefined == "undefined"
UndefinedArg == -1
NaN == -2

\* ----------------------------------------------------- environment inputs
\* httpClient.cloudCreds, and the appID drawn once by the constructor.
UserID == "46884"
SharedKey == "k3y"
AppID == "app1"
UUIDs == {"X1", "X2"}
Timeouts == {5}
Payloads == {"p1"}

\* ------------------------------------------------------- JavaScript values
\* A value whose JavaScript type matters (a filter of findAllBy, the sign of
\* a header), tagged with the type: a property left out of its object, a
\* string, an array of strings, a number.
Omitted == [kind |-> "omitted"]
Str(v) == [kind |-> "string", value |-> v]
List(v) == [kind |-> "list", value |-> v]
Num(v) == [kind |-> "number", value |-> v]

RECURSIVE ArrayToString(_)
\* Array.prototype.toString: the elements joined with commas.
ArrayToString(arr) ==
    IF arr = <<>> THEN ""
    ELSE IF Len(arr) = 1 THEN arr[1]
    ELSE arr[1] \o "," \o ArrayToString(Tail(arr))

\* str == value for a string str: a string operand is compared as it is,
\* an array operand is first converted to a string.
LooseEquals(str, value) ==
    IF value.kind = "string" THEN str = value.value
    ELSE IF value.kind = "list" THEN str = ArrayToString(value.value)
    ELSE FALSE

\* ------------------------------------------------------------- mqtt codec
\* md5 is modelled as a collision-free digest of the string it is given.
md5(s) == "md5(" \o s \o ")"

buildClientResponseTopic(userID, appID) ==
    "/app/" \o userID \o "-" \o appID \o "/subscribe"

\* The literal is single-quoted in the source: nothing is interpolated.
buildClientUserTopic(userID) == "/app/${user_id}/subscribe"

buildDeviceRequestTopic(client_uuid) ==
    "/appliance/" \o client_uuid \o "/subscribe"

\* A topic is kept as the list fromTopic.split('/') yields; the element at
\* JavaScript index 2 is the third of the list.
deviceUUIDFromPushNotification(fromTopic) ==
    IF Len(fromTopic) >= 3 THEN fromTopic[3] ELSE Undefined

SplitDeviceTopic(uuid) == <<"", "appliance", uuid, "subscribe">>

verifyMessageSignature_AcceptAll(header, key) == TRUE

\* hash == header['sign']
verifyMessageSignature(header, key) ==
    LooseEquals(md5(header.messageId \o key \o ToString(header.timestamp)),
                header.sign)

\* namespace == payload.bind.  A bind section is an object, which == turns
\* into the string "[object Object]"; a payload without the field gives
\* undefined, which == only undefined (or null) equals.
NamespaceEqualsBind(namespace, payload) ==
    IF "bind" \in DOMAIN payload
    THEN namespace = "[object Object]"
    ELSE namespace = Undefined

\* Where the comparison holds, the derived fields are never built:
\* parsePushNotification is called as a plain function, so this.parseTimeInfo
\* is not a function, and without a bind field payload.bind.time cannot be
\* read.
parsePushNotificationThrows(namespace, payload) ==
    NamespaceEqualsBind(namespace, payload)

\* parsePushNotification is handed the whole parsed message, which has the
\* fields header and payload and no field bind: payload.bind is undefined,
\* and namespace == undefined holds of no namespace string.  What it
\* returns where it does not throw:
parsePushNotification(namespace, payload, originatingDeviceUUID) ==
    [namespace |-> namespace,
     originatingDeviceUUID |-> originatingDeviceUUID,
     rawData |-> payload]

\* ---------------------------------------------------------------- devices
\* What the HTTP inventory may report for a device.
HTTPDeviceInfos ==
    [uuid : UUIDs, dev_name : {"plug"}, device_type : {"mss310"},
     fmware_version : {"1.0"}, hdware_version : {"2.0"},
     online_status : {ONLINE}]

\* Ability lists a device may report (arrays of namespace names).
AbilityLists ==
    {<<CONTROL_TOGGLE, CONTROL_TOGGLEX>>, <<SYSTEM_DIGEST_HUB>>}

\* The device and the ability list most parts work with.
TheDevice == CHOOSE info \in HTTPDeviceInfos : info.uuid = "X1"
TheAbilities == <<CONTROL_TOGGLE, CONTROL_TOGGLEX>>

\* BaseDevice's getter internalID, which HubDevice and GenericSubDevice
\* inherit (the latter defines internal_id, which nothing reads).
internalID(uuid) == "//BASE:" \o uuid

\* device.internalID.  TaggedDevice is a class a client derives from
\* BaseDevice, overriding the getter.
InternalIDOf(device) ==
    IF device.class = "TaggedDevice"
    THEN internalID(device.uuid) \o "//TAG"
    ELSE internalID(device.uuid)

\* new BaseDevice(deviceUUID, manager, config), tagged with the class built.
\* BaseDevice.parseChannels
parseChannels(channelData) ==
    [index \in 1..Len(channelData) |->
        [index |-> index - 1, name |-> channelData[index].name,
         type |-> channelData[index].type, master |-> index - 1 = 0]]

\* deviceInfo.channels, [] (the parameter default) for a record without one.
ChannelsOf(deviceInfo) ==
    IF "channels" \in DOMAIN deviceInfo THEN deviceInfo.channels ELSE <<>>

BaseDevice(baseClass, deviceUUID, config) ==
    [class |-> baseClass,
     uuid |-> deviceUUID,
     channels |-> parseChannels(ChannelsOf(config)),
     name |-> config.dev_name,
     type |-> config.device_type,
     firmwareVersion |-> config.fmware_version,
     hardwareVersion |-> config.hdware_version,
     online |-> config.online_status]

\* Classes a client derives from BaseDevice, overriding the handler: one
\* whose handlePushNotification returns true, one whose handler throws.
ClientClasses == {"ConsumingDevice", "FailingDevice"}

\* dev.handlePushNotification(namespace, rawData): "true", "false" or
\* "throws".  The base class handles nothing, and HubDevice inherits it.
handlePushNotification(dev, namespace) ==
    CASE dev.class = "ConsumingDevice" -> "true"
      [] dev.class = "FailingDevice" -> "throws"
      [] OTHER -> "false"

\* --------------------------------------------------------------- registry
\* devicesByInternalID is kept as the list of its [id, dev] entries in
\* insertion order, the order Object.values walks a string-keyed object in.
NoDevice == [class |-> "none"]

RegistryKeys(reg) == {reg[i].id : i \in 1..Len(reg)}

lookupByID(reg, deviceID) ==
    IF deviceID \in RegistryKeys(reg)
    THEN reg[CHOOSE i \in 1..Len(reg) : reg[i].id = deviceID].dev
    ELSE NoDevice

enrollDevice_Duplicate(reg, device) ==
    Append(reg, [id |-> InternalIDOf(device), dev |-> device])

enrollDevice_Drop(reg, device) == reg

enrollDevice(reg, device) ==
    IF InternalIDOf(device) \in RegistryKeys(reg)
    THEN reg
    ELSE Append(reg, [id |-> InternalIDOf(device), dev |-> device])

relinquishDevice_Clear(reg, deviceID) ==
    IF deviceID \notin RegistryKeys(reg)
    THEN [threw |-> TRUE, reg |-> reg]
    ELSE [threw |-> FALSE, reg |-> <<>>]

\* relinquishDevice: [threw, reg]; it throws when the id is not a key.
relinquishDevice(reg, deviceID) ==
    IF deviceID \notin RegistryKeys(reg)
    THEN [threw |-> TRUE, reg |-> reg]
    ELSE [threw |-> FALSE,
          reg |-> SelectSeq(reg, LAMBDA e : e.id # deviceID)]

\* What lookupByUUID returns when no device matches.
Null == [class |-> "null"]

lookupByUUID_First(reg, deviceUUID) ==
    LET res == SelectSeq(reg, LAMBDA e : e.dev.uuid = deviceUUID)
    IN [threw |-> FALSE,
        result |-> IF Len(res) >= 1 THEN res[1].dev ELSE Null]

\* lookupByUUID: [threw, result]; it throws when several devices match.
lookupByUUID(reg, deviceUUID) ==
    LET res == SelectSeq(reg, LAMBDA e : e.dev.uuid = deviceUUID)
    IN IF Len(res) > 1 THEN [threw |-> TRUE, result |-> Null]
       ELSE IF Len(res) = 1 THEN [threw |-> FALSE, result |-> res[1].dev]
       ELSE [threw |-> FALSE, result |-> Null]

\* JavaScript truthiness of a string-valued filter.
Truthy(v) == v \notin {Undefined, ""}

\* findAllBy({deviceUUIDs: uuid}), the only filter the manager passes: the
\* matching entries in registry order.  A falsy filter value is taken as
\* "no filter" and matches every device.
findAllByUUID(reg, deviceUUID) ==
    SelectSeq(reg, LAMBDA e :
        IF Truthy(deviceUUID) THEN e.dev.uuid = deviceUUID ELSE TRUE)

\* filter ? ... : true.  undefined, "" and 0 are falsy; every array is truthy.
TruthyFilter(f) ==
    CASE f.kind = "omitted" -> FALSE
      [] f.kind = "string" -> f.value # ""
      [] f.kind = "number" -> f.value # 0
      [] f.kind = "list" -> TRUE

\* [filter].flat().includes(x)
FlatIncludes(f, x) ==
    IF f.kind = "list" THEN \E i \in 1..Len(f.value) : f.value[i] = x
    ELSE f.value = x

\* findAllBy(filters), deviceClass left out: the matching entries in registry
\* order.
findAllBy(reg, filters) ==
    SelectSeq(reg, LAMBDA e :
        /\ TruthyFilter(filters.internalIDs) =>
              FlatIncludes(filters.internalIDs, e.id)
        /\ TruthyFilter(filters.deviceUUIDs) =>
              FlatIncludes(filters.deviceUUIDs, e.dev.uuid)
        /\ TruthyFilter(filters.deviceType) =>
              e.dev.type = filters.deviceType.value
        /\ TruthyFilter(filters.deviceName) =>
              e.dev.name = filters.deviceName.value
        /\ TruthyFilter(filters.onlineStatus) =>
              e.dev.online = filters.onlineStatus.value)

\* ---------------------------------------------------------------- factory
calculateDeviceTypeName(deviceType, hardwareVersion, firmwareVersion) ==
    deviceType \o ":" \o hardwareVersion \o ":" \o firmwareVersion

\* _ABILITY_MATRIX has no entry: every line of it is commented out.
ABILITY_MATRIX == [k \in {} |-> Undefined]

MatrixLookup(key) ==
    IF key \in DOMAIN ABILITY_MATRIX THEN ABILITY_MATRIX[key] ELSE Undefined

\* Object.entries of an array yields its indices "0", "1", ... as keys.
ArrayKeys(arr) == {ToString(i - 1) : i \in 1..Len(arr)}

\* arr[name] for a property name: an element for an index, else undefined.
ArrayProp(arr, name) ==
    IF \E i \in 1..Len(arr) : ToString(i - 1) = name
    THEN arr[CHOOSE i \in 1..Len(arr) : ToString(i - 1) = name]
    ELSE Undefined

\* The class one loop iteration of buildCachedType adds (Undefined: none).
MixinFor(deviceAbilities, key) ==
    LET cls == MatrixLookup(key)
        xVersionAbilityKey == ArrayProp(deviceAbilities, key \o "X")
        clsx == IF Truthy(xVersionAbilityKey)
                THEN MatrixLookup(xVersionAbilityKey) ELSE Undefined
    IN IF Truthy(clsx) THEN clsx ELSE cls

buildCachedType(deviceAbilities, baseClass) ==
    [mixins |-> {MixinFor(deviceAbilities, k) : k \in ArrayKeys(deviceAbilities)}
                  \ {Undefined},
     baseClass |-> baseClass,
     abilitiesSpec |-> deviceAbilities]

Includes(arr, x) == \E i \in 1..Len(arr) : arr[i] = x

\* A factory that calls calculate() whether or not the key is cached.
lookupCachedType_Rebuild(cache, info, deviceAbilities) ==
    LET key == calculateDeviceTypeName(info.device_type, info.hdware_version,
                                       info.fmware_version)
        baseClass == IF Includes(deviceAbilities, SYSTEM_DIGEST_HUB)
                     THEN "HubDevice" ELSE "BaseDevice"
    IN [k \in DOMAIN cache \cup {key} |->
          IF k = key THEN buildCachedType(deviceAbilities, baseClass)
          ELSE cache[k]]

\* lookupCachedType(key, calculate) with the calculate closure of
\* buildMerossDevice: the cache after the call.
lookupCachedType(cache, info, deviceAbilities) ==
    LET key == calculateDeviceTypeName(info.device_type, info.hdware_version,
                                       info.fmware_version)
        baseClass == IF Includes(deviceAbilities, SYSTEM_DIGEST_HUB)
                     THEN "HubDevice" ELSE "BaseDevice"
    IN IF key \in DOMAIN cache
       THEN cache
       ELSE [k \in DOMAIN cache \cup {key} |->
               IF k = key THEN buildCachedType(deviceAbilities, baseClass)
               ELSE cache[k]]

\* buildMerossDevice: the device the cached factory constructs.
buildMerossDevice(cache, info, deviceAbilities) ==
    LET key == calculateDeviceTypeName(info.device_type, info.hdware_version,
                                       info.fmware_version)
        cachedType == lookupCachedType(cache, info, deviceAbilities)[key]
    IN [abilitiesSpec |-> cachedType.abilitiesSpec]
         @@ BaseDevice(cachedType.baseClass, info.uuid, info)

\* ------------------------------------------------------------------ state
VARIABLES
    now,                 \* the clock, in milliseconds (Date.now())
    connected,           \* mqttClient.connected
    mqttConnectedAndSubscribed,
    pendingMessages,     \* messageId -> the call whose promise it settles
    calls,               \* every executeCommand call and its outcome
    published,           \* what mqttClient.publish was given, in order
    timers,              \* armed setTimeout callbacks, in arming order
    devicesByInternalID, \* the registry
    deviceFactories,     \* the cache of lookupCachedType
    pushCallbacks,       \* the observers, in registration order
    pipelines,           \* runs of handleAndDispatchPushNotification
    lastMessage,         \* the latest onMessage run: what it logged last,
                         \* whether it threw, and the message's identifier
    lastCall,            \* the latest call a client made or the latest
                         \* connection event handled: its arguments, the
                         \* registry before it, and what it returned or
                         \* that it threw
    discoveries,         \* runs of deviceDiscovery
    subDevices           \* hub.subDevices of every hub, by the hub's
                         \* internalID, as [id, dev] entries in insertion
                         \* order

vars == <<now, connected, mqttConnectedAndSubscribed, pendingMessages, calls,
          published, timers, devicesByInternalID, deviceFactories,
          pushCallbacks, pipelines, lastMessage, lastCall, discoveries,
          subDevices>>

clientResponseTopic == buildClientResponseTopic(UserID, AppID)
userTopic == buildClientUserTopic(UserID)

\* The n-th value generateNonce returns: random 16-character strings, taken
\* never to repeat.
Nonce(n) == "nonce" \o ToString(n)

NoNotification == [namespace |-> "none"]

\* The state after construction, at clock reading t.
InitAt(t) ==
    /\ now = t
    /\ connected = FALSE
    /\ mqttConnectedAndSubscribed = FALSE
    /\ pendingMessages = [id \in {} |-> 0]
    /\ calls = <<>>
    /\ published = <<>>
    /\ timers = <<>>
    /\ devicesByInternalID = <<>>
    /\ deviceFactories = [k \in {} |-> 0]
    /\ pushCallbacks = <<>>
    /\ pipelines = <<>>
    /\ lastMessage = [log |-> "none", threw |-> FALSE, messageId |-> ""]
    /\ lastCall = [op |-> "none"]
    /\ discoveries = <<>>
    /\ subDevices = <<>>

Init == InitAt(0)

\* ------------------------------------------------------------- time, timers
\* setTimeout's coercion of its delay: anything that is not a number >= 1
\* (NaN, a missing delay) becomes 1 ms.
TimerDelay(after) == IF after >= 1 THEN after ELSE 1

ToMillis(timeout) == IF timeout = UndefinedArg THEN NaN ELSE timeout * 1000

Timer(kind, delay, call, value, notif) ==
    [kind |-> kind, due |-> now + TimerDelay(delay), call |-> call,
     value |-> value, notif |-> notif]

\* Timers that run in any order once they are due.
MayFire_AnyDue(i) == timers[i].due <= now

\* A timer may run once it is due and no timer due earlier, or due at the
\* same time and armed earlier, is still waiting.
MayFire(i) ==
    /\ timers[i].due <= now
    /\ \A j \in 1..Len(timers) :
          j # i => \/ timers[j].due > timers[i].due
                   \/ (timers[j].due = timers[i].due /\ j > i)

RemoveAt(seq, i) == SubSeq(seq, 1, i - 1) \o SubSeq(seq, i + 1, Len(seq))

Tick ==
    /\ now < MaxTime
    /\ now' = now + 1
    /\ UNCHANGED <<connected, mqttConnectedAndSubscribed, pendingMessages,
                   calls, published, timers, devicesByInternalID,
                   deviceFactories, pushCallbacks, pipelines, lastMessage,
                   lastCall, discoveries, subDevices>>

\* Time goes on while a timer waits to become due.
TimePasses ==
    /\ \E i \in 1..Len(timers) : timers[i].due > now
    /\ now' = now + 1
    /\ UNCHANGED <<connected, mqttConnectedAndSubscribed, pendingMessages,
                   calls, published, timers, devicesByInternalID,
                   deviceFactories, pushCallbacks, pipelines, lastMessage,
                   lastCall, discoveries, subDevices>>

\* ------------------------------------------------------------- connection
\* device.update(): the method of BaseDevice, which every class but
\* GenericSubDevice inherits, throws; that of GenericSubDevice returns at
\* once, as no class assigns its UPDATE_ALL_NAMESPACE.
update(device) ==
    IF device.class = "GenericSubDevice" THEN "returns" ELSE "throws"

\* The 'connect' event and the subscribe callback: onSubscribe sets the flag
\* and calls update() on every registered device; it awaits them all, so
\* its own promise rejects when one of them rejects.
OnConnect ==
    /\ ~connected
    /\ connected' = TRUE
    /\ mqttConnectedAndSubscribed' = TRUE
    /\ lastCall' =
          [op |-> "onSubscribe",
           updated |-> [i \in 1..Len(devicesByInternalID) |->
                          devicesByInternalID[i].id],
           threw |-> \E i \in 1..Len(devicesByInternalID) :
                        update(devicesByInternalID[i].dev) = "throws"]
    /\ UNCHANGED <<now, pendingMessages, calls, published, timers,
                   devicesByInternalID, deviceFactories, pushCallbacks,
                   pipelines, lastMessage, discoveries, subDevices>>

\* The result codes a disconnect may carry: an intentional disconnect and a
\* connection drop.
ResultCodes == {"MQTT_ERR_SUCCESS", "MQTT_ERR_CONN_LOST"}

\* The constructor's default.
autoReconnect == TRUE

\* onDisconnect(packet) with the name rc bound to the result code.
rcIsBound_Parameter == TRUE

\* Whether the name rc is bound where onDisconnect reads it: its parameter
\* is packet and no enclosing scope declares rc, so reading it throws a
\* ReferenceError.
rcIsBound == FALSE

\* notifyConnectionDrop: every registered device's status becomes UNKNOWN.
notifyConnectionDrop(reg) ==
    [i \in 1..Len(reg) |-> [reg[i] EXCEPT !.dev.online = UNKNOWN]]

\* The 'disconnect' event: onDisconnect logs rc, stops the loop on a drop
\* without autoReconnect (through the unbound name client), and then calls
\* notifyConnectionDrop.
OnDisconnect(rc) ==
    LET threw == \/ ~rcIsBound
                 \/ rc # "MQTT_ERR_SUCCESS" /\ ~autoReconnect
    IN
    /\ connected
    /\ connected' = FALSE
    /\ devicesByInternalID' = IF threw THEN devicesByInternalID
                              ELSE notifyConnectionDrop(devicesByInternalID)
    /\ lastCall' = [op |-> "onDisconnect", rc |-> rc,
                    before |-> devicesByInternalID, threw |-> threw]
    /\ UNCHANGED <<now, mqttConnectedAndSubscribed, pendingMessages, calls,
                   published, timers, deviceFactories, pushCallbacks,
                   pipelines, lastMessage, discoveries, subDevices>>

\* --------------------------------------------------------- outbound command
\* namespace.value: Namespace members are plain strings, which have no
\* property value.
NamespaceValue(namespace) == Undefined

buildMQTTMessage(method, namespace, payload, nonce) ==
    LET messageId == md5(nonce)
        timestamp == now \div 100
        signature == md5(messageId \o SharedKey \o ToString(timestamp))
    IN [header |-> [from |-> clientResponseTopic,
                    messageId |-> messageId,
                    method |-> method,
                    namespace |-> NamespaceValue(namespace),
                    payloadVersion |-> 1,
                    sign |-> Str(signature),
                    timestamp |-> timestamp],
        payload |-> payload]

NoAck == [method |-> "none", payload |-> ""]

\* One executeCommand call.  ack is bookkeeping: the acknowledgement onMessage
\* matched to the call's pending entry, if any.
Call(messageId, timeout, status) ==
    [messageId |-> messageId, timeout |-> timeout, sentAt |-> now,
     status |-> status, value |-> "", doneAt |-> now, ack |-> NoAck]

MayProceed_Always(isConnected) == TRUE

\* executeCommand goes on only if mqttClient.connected.
MayProceed(isConnected) == isConnected

\* The fourth argument of asyncSendAndWaitAck: executeCommand passes three.
AckWaitTimeout(timeout) == UndefinedArg

\* executeCommand, for at most maxCalls calls in one behaviour.
executeCommandWithin(maxCalls, destinationDeviceUUID, method, namespace, payload, timeout) ==
    /\ Len(calls) < maxCalls
    /\ IF ~MayProceed(connected)
       THEN /\ calls' = Append(calls, Call("", timeout, "NotConnected"))
            /\ UNCHANGED <<pendingMessages, published, timers>>
       ELSE LET n == Len(calls) + 1
                message == buildMQTTMessage(method, namespace, payload, Nonce(n))
                messageID == message.header.messageId
            IN /\ calls' = Append(calls, Call(messageID, timeout, "pending"))
               /\ pendingMessages' =
                     [id \in DOMAIN pendingMessages \cup {messageID} |->
                        IF id = messageID THEN n ELSE pendingMessages[id]]
               /\ published' = Append(published,
                     [topic |-> buildDeviceRequestTopic(destinationDeviceUUID),
                      message |-> message])
               /\ timers' = Append(timers,
                     Timer("timeout", ToMillis(AckWaitTimeout(timeout)), n, "",
                           NoNotification))
    /\ UNCHANGED <<now, connected, mqttConnectedAndSubscribed,
                   devicesByInternalID, deviceFactories, pushCallbacks,
                   pipelines, lastMessage,
                   lastCall, discoveries, subDevices>>

executeCommand(destinationDeviceUUID, method, namespace, payload, timeout) ==
    executeCommandWithin(MaxCalls, destinationDeviceUUID, method, namespace,
                         payload, timeout)

\* A promise that a later resolve or reject settles again.
Settle_Again(call, status, value) ==
    [calls EXCEPT ![call].status = status, ![call].value = value,
                  ![call].doneAt = now]

\* A promise settles once: a later resolve or reject of it is ignored.
Settle(call, status, value) ==
    IF calls[call].status = "pending"
    THEN [calls EXCEPT ![call].status = status, ![call].value = value,
                       ![call].doneAt = now]
    ELSE calls

\* The timer of asyncSendAndWaitAck: it rejects the race with CommandTimeout.
TimeoutFires(i) ==
    /\ timers[i].kind = "timeout"
    /\ MayFire(i)
    /\ calls' = Settle(timers[i].call, "CommandTimeout", "")
    /\ timers' = RemoveAt(timers, i)
    /\ UNCHANGED <<now, connected, mqttConnectedAndSubscribed, pendingMessages,
                   published, devicesByInternalID, deviceFactories,
                   pushCallbacks, pipelines, lastMessage,
                   lastCall, discoveries, subDevices>>

\* setTimeout(() => future.resolve(message)): executeCommand then returns
\* response.payload.
ResolveFires(i) ==
    /\ timers[i].kind = "resolve"
    /\ MayFire(i)
    /\ calls' = Settle(timers[i].call, "returned", timers[i].value.payload)
    /\ timers' = RemoveAt(timers, i)
    /\ UNCHANGED <<now, connected, mqttConnectedAndSubscribed, pendingMessages,
                   published, devicesByInternalID, deviceFactories,
                   pushCallbacks, pipelines, lastMessage,
                   lastCall, discoveries, subDevices>>

\* setTimeout(() => future.reject(message.payload)).
RejectFires(i) ==
    /\ timers[i].kind = "reject"
    /\ MayFire(i)
    /\ calls' = Settle(timers[i].call, "RemoteError", timers[i].value)
    /\ timers' = RemoveAt(timers, i)
    /\ UNCHANGED <<now, connected, mqttConnectedAndSubscribed, pendingMessages,
                   published, devicesByInternalID, deviceFactories,
                   pushCallbacks, pipelines, lastMessage,
                   lastCall, discoveries, subDevices>>

\* ------------------------------------------------------------------ inbound
ACK_METHODS == {"SETACK", "GETACK", "ERROR"}

MessageIds == {md5(Nonce(n)) : n \in 1..MaxCalls} \cup {md5("stale")}

\* The account notification topic of the wire protocol, which is not the
\* string buildClientUserTopic returns.
AccountTopic == "/app/" \o UserID \o "/subscribe"

InboundTopics == {clientResponseTopic, userTopic, AccountTopic}

\* header.from as split('/') sees it: a device topic, a topic too short to
\* hold a uuid, and MissingFrom for a header without the field (split never
\* yields an empty list).
MissingFrom == <<>>
Froms == {SplitDeviceTopic("X1"), <<"", "appliance">>, MissingFrom}

\* The keys inbound messages are signed with: the shared one, and another.
SignKeys == {SharedKey, "forged"}

InboundHeader(method, messageId, namespace, from, signKey) ==
    [from |-> from, messageId |-> messageId, method |-> method,
     namespace |-> namespace, payloadVersion |-> 1,
     sign |-> Str(md5(messageId \o signKey \o ToString(0))),
     timestamp |-> 0]

\* What the broker may deliver: (topic, packet.header, message.payload).
\* Acknowledgement-like messages: every method but PUSH.
InboundAcks ==
    {[topic |-> t, header |-> InboundHeader(m, id, SYSTEM_ABILITY,
                                            SplitDeviceTopic("X1"), k),
      payload |-> p] :
        t \in {clientResponseTopic, userTopic}, m \in ACK_METHODS \cup {"GET"},
        id \in MessageIds, k \in SignKeys, p \in Payloads}

\* PUSH messages, carrying the message identifier of the first command.
InboundPushes ==
    {[topic |-> t, header |-> InboundHeader("PUSH", md5(Nonce(1)), ns, f, k),
      payload |-> "p1"] :
        t \in InboundTopics, ns \in {CONTROL_UNBIND, CONTROL_TOGGLEX},
        f \in Froms, k \in SignKeys}

InboundMessages == InboundAcks \cup InboundPushes

\* The acknowledgement-like messages that carry a valid signature.
InboundSignedAcks ==
    {m \in InboundAcks : verifyMessageSignature(m.header, SharedKey)}

\* The PUSH messages the manager takes for notifications.
InboundNotifications ==
    {m \in InboundPushes : /\ m.topic = userTopic
                           /\ m.header.from # MissingFrom
                           /\ verifyMessageSignature(m.header, SharedKey)}

IsCommandAck_AnyTopic(topic, messageMethod) == messageMethod \in ACK_METHODS

IsCommandAck(topic, messageMethod) ==
    topic = clientResponseTopic /\ messageMethod \in ACK_METHODS

IsPushNotification_AnyTopic(topic, messageMethod) == messageMethod = "PUSH"

IsPushNotification(topic, messageMethod) ==
    topic = userTopic /\ messageMethod = "PUSH"

\* Notifications accepted and not yet finished with, against MaxPushes.
PushesAccepted ==
    Len(pipelines) + Cardinality({i \in 1..Len(timers) : timers[i].kind = "dispatch"})

\* What onMessage leaves in lastMessage.
Logged(header, log, threw) ==
    [log |-> log, threw |-> threw, messageId |-> header.messageId]

NoFuture == 0

PendingFuture_Any(pending, messageID) ==
    IF DOMAIN pending = {} THEN NoFuture
    ELSE pending[CHOOSE id \in DOMAIN pending : TRUE]

\* this.pendingMessages[messageID]: undefined when there is no such entry.
PendingFuture(pending, messageID) ==
    IF messageID \in DOMAIN pending THEN pending[messageID] ELSE NoFuture

\* onMessage, accepting at most maxPushes notifications for dispatch.
onMessageWithin(maxPushes, topic, header, payload) ==
    LET message == [header |-> header, payload |-> payload]
        messageID == header.messageId
        future == PendingFuture(pendingMessages, messageID)
    IN
    /\ IF ~verifyMessageSignature(header, SharedKey)
       THEN /\ lastMessage' = Logged(header, "Invalid signature received", FALSE)
            /\ UNCHANGED <<pendingMessages, calls, timers>>
       ELSE IF IsCommandAck(topic, header.method)
       THEN IF future # NoFuture
            THEN /\ pendingMessages' =
                       [id \in DOMAIN pendingMessages \ {messageID} |->
                          pendingMessages[id]]
                 /\ calls' = [calls EXCEPT ![future].ack =
                       [method |-> header.method, payload |-> payload]]
                 /\ timers' = Append(timers,
                       IF header.method = "ERROR"
                       THEN Timer("reject", UndefinedArg, future, payload,
                                  NoNotification)
                       ELSE Timer("resolve", UndefinedArg, future, message,
                                  NoNotification))
                 /\ lastMessage' = Logged(header, "Found a pending command", FALSE)
            ELSE /\ lastMessage' = Logged(header, "This message is an ACK", FALSE)
                 /\ UNCHANGED <<pendingMessages, calls, timers>>
       ELSE IF IsPushNotification(topic, header.method)
       THEN IF header.from = MissingFrom
            THEN /\ lastMessage' = Logged(header, "Message signature OK", TRUE)
                 /\ UNCHANGED <<pendingMessages, calls, timers>>
            ELSE /\ PushesAccepted < maxPushes
                 /\ timers' = Append(timers,
                       Timer("dispatch", UndefinedArg, 0, "",
                             parsePushNotification(header.namespace, message,
                                deviceUUIDFromPushNotification(header.from))))
                 /\ lastMessage' = Logged(header, "Message signature OK", FALSE)
                 /\ UNCHANGED <<pendingMessages, calls>>
       ELSE /\ lastMessage' = Logged(header, "does not handle messages", FALSE)
            /\ UNCHANGED <<pendingMessages, calls, timers>>
    /\ UNCHANGED <<now, connected, mqttConnectedAndSubscribed, published,
                   devicesByInternalID, deviceFactories, pushCallbacks,
                   pipelines,
                   lastCall, discoveries, subDevices>>

onMessage(topic, header, payload) ==
    onMessageWithin(MaxPushes, topic, header, payload)

\* ---------------------------------------------------- notification pipeline
dispatchPushNotification_AbortOnThrow(reg, pushNotification) ==
    LET target_devs == findAllByUUID(reg, pushNotification.originatingDeviceUUID)
        ended == {k \in 1..Len(target_devs) :
                     handlePushNotification(target_devs[k].dev,
                                            pushNotification.namespace) # "false"}
        last == IF ended = {} THEN Len(target_devs)
                ELSE CHOOSE k \in ended : \A j \in ended : k <= j
    IN [delivered |-> [k \in 1..last |-> target_devs[k].id],
        result |-> ended # {} /\
                   handlePushNotification(target_devs[last].dev,
                                          pushNotification.namespace) = "true"]

\* dispatchPushNotification: the devices handed the notification, in order,
\* up to and including the first whose handler returns true, and the result.
\* A handler that throws is caught inside the loop, which goes on.
dispatchPushNotification(reg, pushNotification) ==
    LET target_devs == findAllByUUID(reg, pushNotification.originatingDeviceUUID)
        consumed == {k \in 1..Len(target_devs) :
                        handlePushNotification(target_devs[k].dev,
                                               pushNotification.namespace) = "true"}
        last == IF consumed = {} THEN Len(target_devs)
                ELSE CHOOSE k \in consumed : \A j \in consumed : k <= j
    IN [delivered |-> [k \in 1..last |-> target_devs[k].id],
        result |-> consumed # {}]

RECURSIVE relinquishEach(_, _)
\* for (const d of devs) this.deviceRegistry.relinquishDevice(d.internalID)
relinquishEach(reg, devs) ==
    IF devs = <<>>
    THEN [threw |-> FALSE, reg |-> reg]
    ELSE LET r == relinquishDevice(reg, InternalIDOf(Head(devs).dev))
         IN IF r.threw THEN r ELSE relinquishEach(r.reg, Tail(devs))

handlePushNotificationPostDispatching_Never(reg, pushNotification) ==
    [handled |-> FALSE, threw |-> FALSE, reg |-> reg]

\* Housekeeping that releases the originating device without looking it up.
handlePushNotificationPostDispatching_NoLookup(reg, pushNotification) ==
    IF pushNotification.namespace = CONTROL_UNBIND
    THEN LET r == relinquishDevice(reg,
                    internalID(pushNotification.originatingDeviceUUID))
         IN [handled |-> TRUE, threw |-> r.threw, reg |-> r.reg]
    ELSE [handled |-> FALSE, threw |-> FALSE, reg |-> reg]

handlePushNotificationPostDispatching(reg, pushNotification) ==
    IF pushNotification.namespace = CONTROL_UNBIND
    THEN LET r == relinquishEach(reg,
                    findAllByUUID(reg, pushNotification.originatingDeviceUUID))
         IN [handled |-> TRUE, threw |-> r.threw, reg |-> r.reg]
    ELSE [handled |-> FALSE, threw |-> FALSE, reg |-> reg]

\* handledDevice holds the promise dispatchPushNotification returned, which
\* is not awaited: the value tested is an object, whatever the result.
HandledDeviceTruthy(result) == TRUE

\* After the observers' loop: post-dispatch housekeeping and the final log.
Finished(run) ==
    LET post == handlePushNotificationPostDispatching(devicesByInternalID,
                                                      run.notif)
    IN [run EXCEPT !.pc = IF post.threw THEN "failed" ELSE "done",
                   !.handledPost = post.handled,
                   !.warned = ~post.threw /\ ~HandledDeviceTruthy(run.handledDevice)
                              /\ ~post.handled]

RegistryAfter(run) ==
    handlePushNotificationPostDispatching(devicesByInternalID, run.notif).reg

\* The deferred handleAndDispatchPushNotification starts.  It calls
\* dispatchPushNotification without awaiting it: that call runs up to its
\* first await, with the first target device's handler called, and hands
\* back its promise (handledDevice, kept here with the value it will settle
\* to).  Then the first observer is called, or, with none, the housekeeping
\* runs.
DispatchFires(i) ==
    /\ timers[i].kind = "dispatch"
    /\ MayFire(i)
    /\ LET notif == timers[i].notif
           d == dispatchPushNotification(devicesByInternalID, notif)
           run == [notif |-> notif,
                   targetDevs |-> findAllByUUID(devicesByInternalID,
                                                notif.originatingDeviceUUID),
                   delivered |-> IF d.delivered = <<>> THEN <<>>
                                 ELSE <<d.delivered[1]>>,
                   dispatching |-> d.delivered # <<>>,
                   handledDevice |-> d.result,
                   i |-> IF pushCallbacks = <<>> THEN 0 ELSE 1,
                   invoked |-> IF pushCallbacks = <<>> THEN <<>>
                               ELSE <<pushCallbacks[1]>>,
                   caught |-> FALSE,
                   pc |-> "observers",
                   handledPost |-> FALSE,
                   warned |-> FALSE]
       IN IF pushCallbacks = <<>>
          THEN /\ pipelines' = Append(pipelines, Finished(run))
               /\ devicesByInternalID' = RegistryAfter(run)
          ELSE /\ pipelines' = Append(pipelines, run)
               /\ UNCHANGED devicesByInternalID
    /\ timers' = RemoveAt(timers, i)
    /\ UNCHANGED <<now, connected, mqttConnectedAndSubscribed, pendingMessages,
                   calls, published, deviceFactories, pushCallbacks,
                   lastMessage,
                   lastCall, discoveries, subDevices>>

\* dispatchPushNotification resumes after an await of a device's handler:
\* it returns, or it calls the next target device's handler and awaits that.
DeliveryResumes(p) ==
    /\ pipelines[p].dispatching
    /\ LET run == pipelines[p]
           d == dispatchPushNotification(run.targetDevs, run.notif)
           n == Len(run.delivered)
       IN pipelines' = [pipelines EXCEPT ![p] =
             IF n < Len(d.delivered)
             THEN [run EXCEPT !.delivered = Append(@, d.delivered[n + 1])]
             ELSE [run EXCEPT !.dispatching = FALSE]]
    /\ UNCHANGED <<now, connected, mqttConnectedAndSubscribed, pendingMessages,
                   calls, published, timers, devicesByInternalID,
                   deviceFactories, pushCallbacks, lastMessage, lastCall,
                   discoveries, subDevices>>

\* The observer being awaited settles: it returned (ok) or it failed.  The
\* try encloses the whole loop, so a failure ends the loop.
ObserverSettles(p, ok) ==
    /\ pipelines[p].pc = "observers"
    /\ LET run == pipelines[p] IN
       IF ok /\ run.i < Len(pushCallbacks)
       THEN /\ pipelines' = [pipelines EXCEPT
                  ![p].i = run.i + 1,
                  ![p].invoked = Append(run.invoked, pushCallbacks[run.i + 1])]
            /\ UNCHANGED devicesByInternalID
       ELSE /\ pipelines' = [pipelines EXCEPT
                  ![p] = Finished([run EXCEPT !.caught = ~ok])]
            /\ devicesByInternalID' = RegistryAfter(run)
    /\ UNCHANGED <<now, connected, mqttConnectedAndSubscribed, pendingMessages,
                   calls, published, timers, deviceFactories, pushCallbacks,
                   lastMessage,
                   lastCall, discoveries, subDevices>>

\* A client adds an observer to the manager's pushCallbacks.
RegisterPushCallback ==
    /\ Len(pushCallbacks) < MaxObservers
    /\ pushCallbacks' =
          Append(pushCallbacks, "observer" \o ToString(Len(pushCallbacks) + 1))
    /\ UNCHANGED <<now, connected, mqttConnectedAndSubscribed, pendingMessages,
                   calls, published, timers, devicesByInternalID,
                   deviceFactories, pipelines, lastMessage,
                   lastCall, discoveries, subDevices>>

\* The namespaces a PUSH header may carry, and none.
PushNamespaces == {CONTROL_BIND, CONTROL_UNBIND, CONTROL_TOGGLEX, Undefined}

\* payload.bind of a bind notification.
BindSections ==
    [time : {[timezone |-> "UTC", timestamp |-> 1, time_rule |-> "none"],
             [timezone |-> "CET", timestamp |-> 2, time_rule |-> "none"]},
     hardware : {[version |-> "2.0", wifi_mac |-> "aa:bb"],
                 [version |-> "3.0", wifi_mac |-> "cc:dd"]}]

\* The second argument: the parsed message as onMessage passes it (header
\* and payload), or the message's payload alone.
PushMessages ==
    LET payloads == {[bind |-> b] : b \in BindSections}
                        \cup {[togglex |-> "on"]}
    IN {[header |-> [method |-> "PUSH"], payload |-> p] : p \in payloads}
           \cup payloads

ParsePushNotification(namespace, payload, originatingDeviceUUID) ==
    /\ lastCall' =
          [op |-> "parsePushNotification",
           namespace |-> namespace,
           payload |-> payload,
           threw |-> parsePushNotificationThrows(namespace, payload),
           result |-> IF parsePushNotificationThrows(namespace, payload)
                      THEN NoNotification
                      ELSE parsePushNotification(namespace, payload,
                                                 originatingDeviceUUID)]
    /\ UNCHANGED <<now, connected, mqttConnectedAndSubscribed, pendingMessages,
                   calls, published, timers, devicesByInternalID,
                   deviceFactories, pushCallbacks, pipelines, lastMessage,
                   discoveries, subDevices>>

\* ------------------------------------------------------ registry and factory
\* buildMerossDevice, then deviceRegistry.enrollDevice: what enrollNewDevice
\* does with the abilities it was given, and what any client of the two
\* exported operations may do.
BuildAndEnroll(deviceInfo, abilities) ==
    /\ deviceFactories' = lookupCachedType(deviceFactories, deviceInfo, abilities)
    /\ devicesByInternalID' =
          enrollDevice(devicesByInternalID,
                       buildMerossDevice(deviceFactories, deviceInfo, abilities))
    /\ UNCHANGED <<now, connected, mqttConnectedAndSubscribed, pendingMessages,
                   calls, published, timers, pushCallbacks, pipelines,
                   lastMessage,
                   lastCall, discoveries, subDevices>>

\* Device records of two firmware versions, hence of two type names.
FactoryInfos ==
    {[TheDevice EXCEPT !.uuid = u, !.fmware_version = f] :
        u \in UUIDs, f \in {"1.0", "1.1"}}

\* A client calls the exported buildMerossDevice(deviceInfo, abilities,
\* manager).
BuildMerossDevice(deviceInfo, abilities) ==
    /\ deviceFactories' = lookupCachedType(deviceFactories, deviceInfo, abilities)
    /\ lastCall' = [op |-> "buildMerossDevice", deviceInfo |-> deviceInfo,
                    abilities |-> abilities, before |-> deviceFactories,
                    result |-> buildMerossDevice(deviceFactories, deviceInfo,
                                                 abilities)]
    /\ UNCHANGED <<now, connected, mqttConnectedAndSubscribed, pendingMessages,
                   calls, published, timers, devicesByInternalID,
                   pushCallbacks, pipelines, lastMessage, discoveries, subDevices>>

\* ---------------------------------------------------------------- discovery
\* What httpClient.listDevices() may answer: the account's inventory, one
\* device online, one offline and one of unknown status.
Inventory ==
    <<[uuid |-> "X1", dev_name |-> "plug", device_type |-> "mss310",
       fmware_version |-> "1.0", hdware_version |-> "2.0",
       online_status |-> ONLINE],
      [uuid |-> "X2", dev_name |-> "lamp", device_type |-> "mss310",
       fmware_version |-> "1.0", hdware_version |-> "2.0",
       online_status |-> OFFLINE],
      [uuid |-> "X3", dev_name |-> "fan", device_type |-> "mss310",
       fmware_version |-> "1.0", hdware_version |-> "2.0",
       online_status |-> UNKNOWN]>>

\* merossDeviceUUID = null, the default of deviceDiscovery: no filter.
NullUUID == "null"

\* The merossDeviceUUID argument of deviceDiscovery.
DiscoveryFilters == {NullUUID, "X1"}

\* What the awaited executeCommand of enrollNewDevice may yield: the
\* abilities, a CommandTimeout, or another error.
EnrollOutcomes == {"abilities", "CommandTimeout", "error"}

\* enrollNewDevice going on whatever the record's status.
MayEnroll_Any(deviceInfo) == TRUE

\* enrollNewDevice goes on to ask for the abilities only if the record
\* reports the device online; otherwise it returns null at once.
MayEnroll(deviceInfo) == deviceInfo.online_status = ONLINE

\* BaseDevice.updateFromHTTPState without its uuid check.
updateFromHTTPState_Unchecked(dev, deviceInfo) ==
    [threw |-> FALSE,
     dev |-> [dev EXCEPT !.name = deviceInfo.dev_name,
                         !.channels = parseChannels(ChannelsOf(deviceInfo)),
                         !.type = deviceInfo.device_type,
                         !.firmwareVersion = deviceInfo.fmware_version,
                         !.hardwareVersion = deviceInfo.hdware_version,
                         !.online = deviceInfo.online_status]]

\* BaseDevice.updateFromHTTPState of devices.ts: [threw, dev], the device
\* after the call.
updateFromHTTPState(dev, deviceInfo) ==
    IF deviceInfo.uuid # dev.uuid
    THEN [threw |-> TRUE, dev |-> dev]
    ELSE [threw |-> FALSE,
          dev |-> [dev EXCEPT !.name = deviceInfo.dev_name,
                              !.channels = parseChannels(ChannelsOf(deviceInfo)),
                              !.type = deviceInfo.device_type,
                              !.firmwareVersion = deviceInfo.fmware_version,
                              !.hardwareVersion = deviceInfo.hdware_version,
                              !.online = deviceInfo.online_status]]

\* BaseDevice.updateFromHTTPState of devices.js, which assigns the versions
\* to the properties fwversion and hwversion.
updateFromHTTPState_js(dev, deviceInfo) ==
    IF deviceInfo.uuid # dev.uuid
    THEN [threw |-> TRUE, dev |-> dev]
    ELSE [threw |-> FALSE,
          dev |-> [fwversion |-> deviceInfo.fmware_version,
                   hwversion |-> deviceInfo.hdware_version] @@
                  [dev EXCEPT !.name = deviceInfo.dev_name,
                              !.channels = parseChannels(ChannelsOf(deviceInfo)),
                              !.type = deviceInfo.device_type,
                              !.online = deviceInfo.online_status]]

\* The two modules that define the device classes.
DeviceModules == {"devices.js", "devices.ts"}

\* HTTP records a device may be updated from: for each uuid, the record
\* the device was built from and one that differs from it in name,
\* firmware version, status and channels.
UpdateInfos ==
    HTTPDeviceInfos \cup
    {[uuid |-> u, dev_name |-> "lamp", device_type |-> "mss310",
      fmware_version |-> "1.1", hdware_version |-> "2.0",
      online_status |-> OFFLINE,
      channels |-> <<[name |-> "main", type |-> "Switch"]>>] : u \in UUIDs}

\* A client calls updateFromHTTPState(deviceInfo) on the i-th registered
\* device, whose class comes from the given module.
UpdateFromHTTPState(module, i, deviceInfo) ==
    LET device == devicesByInternalID[i].dev
        r == IF module = "devices.js"
             THEN updateFromHTTPState_js(device, deviceInfo)
             ELSE updateFromHTTPState(device, deviceInfo)
    IN
    /\ devicesByInternalID' = [devicesByInternalID EXCEPT ![i].dev = r.dev]
    /\ lastCall' = [op |-> "updateFromHTTPState", module |-> module,
                    device |-> device, deviceInfo |-> deviceInfo,
                    threw |-> r.threw, result |-> r.dev]
    /\ UNCHANGED <<now, connected, mqttConnectedAndSubscribed, pendingMessages,
                   calls, published, timers, deviceFactories, pushCallbacks,
                   pipelines, lastMessage, discoveries, subDevices>>

\* ------------------------------------------------------- hubs, sub-devices
SubDeviceIDs == {"S1", "S2"}

\* The config a sub-device is constructed from (an HttpSubdeviceInfo).
SubDeviceConfigs ==
    [sub_device_type : {"ms100"}, sub_device_name : {"sensor", "valve"}]

\* this.subDevices of the hub enrolled under hubKey.
HubSubDevices(subs, hubKey) ==
    IF hubKey \in DOMAIN subs THEN subs[hubKey] ELSE <<>>

\* manager.findDevices({ deviceUUIDs: hubDeviceUUID })
findDevicesByUUID(reg, hubDeviceUUID) ==
    findAllBy(reg, [internalIDs |-> Omitted, deviceUUIDs |-> Str(hubDeviceUUID),
                    deviceType |-> Omitted, deviceName |-> Omitted,
                    onlineStatus |-> Omitted])

\* new GenericSubDevice(hubDeviceUUID, id, manager, config): [threw, dev].
\* The base constructor finds none of its fields in config and takes its
\* defaults; hub refers to the first device findDevices returned.
GenericSubDevice(reg, hubDeviceUUID, id, config) ==
    LET hub == findDevicesByUUID(reg, hubDeviceUUID)
    IN IF Len(hub) < 1
       THEN [threw |-> TRUE, dev |-> NoDevice]
       ELSE [threw |-> FALSE,
             dev |-> [class |-> "GenericSubDevice",
                      uuid |-> hubDeviceUUID,
                      channels |-> <<>>,
                      name |-> config.sub_device_name,
                      type |-> config.sub_device_type,
                      firmwareVersion |-> "unknown",
                      hardwareVersion |-> "unknown",
                      online |-> UNKNOWN,
                      id |-> id,
                      hub |-> hub[1].id]]

\* registerSubDevice that assigns whether or not the id is registered.
registerSubDevice_Overwrite(entries, subDevice) ==
    IF \E i \in 1..Len(entries) : entries[i].id = subDevice.id
    THEN [i \in 1..Len(entries) |->
            IF entries[i].id = subDevice.id
            THEN [id |-> subDevice.id, dev |-> subDevice] ELSE entries[i]]
    ELSE Append(entries, [id |-> subDevice.id, dev |-> subDevice])

\* HubDevice.registerSubDevice: this.subDevices after the call.
registerSubDevice(entries, subDevice) ==
    IF \E i \in 1..Len(entries) : entries[i].id = subDevice.id
    THEN entries
    ELSE Append(entries, [id |-> subDevice.id, dev |-> subDevice])

\* The getter onlineStatus of BaseDevice and of GenericSubDevice.
onlineStatus(reg, dev) ==
    IF dev.class = "GenericSubDevice"
    THEN LET hub == lookupByID(reg, dev.hub)
         IN IF hub.online # ONLINE THEN hub.online ELSE dev.online
    ELSE dev.online

\* Every class runs the executeCommand of BaseDevice.
executeCommandThrows_Inherited(class) == FALSE

\* GenericSubDevice overrides executeCommand with a method that throws.
executeCommandThrows(class) == class = "GenericSubDevice"

\* A client constructs a sub-device for the hub of hubDeviceUUID and hands
\* it to registerSubDevice of the hub enrolled under hubKey.
RegisterSubDevice(hubKey, hubDeviceUUID, id, config) ==
    LET c == GenericSubDevice(devicesByInternalID, hubDeviceUUID, id, config)
        before == HubSubDevices(subDevices, hubKey)
        after == registerSubDevice(before, c.dev)
    IN
    /\ lookupByID(devicesByInternalID, hubKey).class = "HubDevice"
    /\ IF c.threw
       THEN /\ lastCall' = [op |-> "new GenericSubDevice", threw |-> TRUE]
            /\ UNCHANGED subDevices
       ELSE /\ subDevices' = [k \in DOMAIN subDevices \cup {hubKey} |->
                                IF k = hubKey THEN after ELSE subDevices[k]]
            /\ lastCall' = [op |-> "registerSubDevice", hub |-> hubKey,
                            subDevice |-> c.dev, before |-> before,
                            threw |-> FALSE, result |-> after]
    /\ UNCHANGED <<now, connected, mqttConnectedAndSubscribed, pendingMessages,
                   calls, published, timers, devicesByInternalID,
                   deviceFactories, pushCallbacks, pipelines, lastMessage,
                   discoveries>>

\* A client calls updateFromHTTPState(deviceInfo) on the i-th sub-device of
\* a hub.
UpdateSubDevice(hubKey, i, deviceInfo) ==
    LET device == subDevices[hubKey][i].dev
        r == updateFromHTTPState(device, deviceInfo)
    IN
    /\ subDevices' = [subDevices EXCEPT ![hubKey][i].dev = r.dev]
    /\ lastCall' = [op |-> "updateFromHTTPState", module |-> "devices.ts",
                    device |-> device, deviceInfo |-> deviceInfo,
                    threw |-> r.threw, result |-> r.dev]
    /\ UNCHANGED <<now, connected, mqttConnectedAndSubscribed, pendingMessages,
                   calls, published, timers, devicesByInternalID,
                   deviceFactories, pushCallbacks, pipelines, lastMessage,
                   discoveries>>

\* A client reads onlineStatus of the i-th sub-device of a hub.
ReadOnlineStatus(hubKey, i) ==
    LET device == subDevices[hubKey][i].dev IN
    /\ lastCall' = [op |-> "onlineStatus", device |-> device,
                    hubStatus |-> lookupByID(devicesByInternalID,
                                             device.hub).online,
                    result |-> onlineStatus(devicesByInternalID, device)]
    /\ UNCHANGED <<now, connected, mqttConnectedAndSubscribed, pendingMessages,
                   calls, published, timers, devicesByInternalID,
                   deviceFactories, pushCallbacks, pipelines, lastMessage,
                   discoveries, subDevices>>

\* A client calls device.executeCommand(method, namespace, payload, timeout):
\* the method of GenericSubDevice throws, that of BaseDevice hands the call
\* to the manager.
DeviceExecuteCommand(device, method, namespace, payload, timeout) ==
    IF executeCommandThrows(device.class)
    THEN /\ lastCall' = [op |-> "executeCommand", device |-> device,
                         wasConnected |-> connected, threw |-> TRUE]
         /\ UNCHANGED <<now, connected, mqttConnectedAndSubscribed,
                        pendingMessages, calls, published, timers,
                        devicesByInternalID, deviceFactories, pushCallbacks,
                        pipelines, lastMessage, discoveries, subDevices>>
    ELSE executeCommand(device.uuid, method, namespace, payload, timeout)

\* A BaseDevice.update that returns.
superUpdate_Returns(device) == "returns"

\* super.update() in GenericSubDevice.update: BaseDevice.update, which
\* throws.
superUpdate(device) == "throws"

\* A client calls update() on the i-th sub-device of a hub, whose
\* UPDATE_ALL_NAMESPACE holds updateAllNamespace: null as the constructor
\* leaves it (falsy, like undefined), or a namespace a subclass assigned.
\* It returns at once without a namespace; with one it awaits
\* super.update(), and only past that asks the hub to send the command.
SubDeviceUpdate(hubKey, i, updateAllNamespace) ==
    LET device == subDevices[hubKey][i].dev IN
    IF ~Truthy(updateAllNamespace) \/ superUpdate(device) = "throws"
    THEN /\ lastCall' = [op |-> "update", device |-> device,
                         namespace |-> updateAllNamespace,
                         wasConnected |-> connected,
                         threw |-> Truthy(updateAllNamespace)]
         /\ UNCHANGED <<now, connected, mqttConnectedAndSubscribed,
                        pendingMessages, calls, published, timers,
                        devicesByInternalID, deviceFactories, pushCallbacks,
                        pipelines, lastMessage, discoveries, subDevices>>
    ELSE DeviceExecuteCommand(lookupByID(devicesByInternalID, device.hub),
                              "GET", updateAllNamespace, "{all}", 5)

\* -------------------------------------------------------- discovery runs
\* A client calls manager.deviceDiscovery(true, merossDeviceUUID): the run
\* awaits httpClient.listDevices().
DeviceDiscovery(merossDeviceUUID) ==
    /\ Len(discoveries) < MaxDiscoveries
    /\ discoveries' = Append(discoveries,
          [pc |-> "listing", filter |-> merossDeviceUUID, failed |-> FALSE,
           known |-> {}, waiting |-> {}, enrolled |-> {}])
    /\ UNCHANGED <<now, connected, mqttConnectedAndSubscribed, pendingMessages,
                   calls, published, timers, devicesByInternalID,
                   deviceFactories, pushCallbacks, pipelines, lastMessage,
                   lastCall, subDevices>>

\* listDevices() answered run r: the devices are split into known and new
\* ones by lookupByUUID, every known device is updated from its HTTP
\* record, and enrollNewDevice starts for every new one: it returns null
\* for a device that is not online and awaits the abilities of the others.
DiscoveryListed(r) ==
    LET run == discoveries[r]
        httpDevices ==
            {k \in 1..Len(Inventory) :
                run.filter = NullUUID \/ Inventory[k].uuid = run.filter}
        found == [k \in httpDevices |->
                    lookupByUUID(devicesByInternalID, Inventory[k].uuid)]
        threw == \E k \in httpDevices : found[k].threw
        knownDevices == {k \in httpDevices : found[k].result # Null}
        newDevices == httpDevices \ knownDevices
        awaited == {k \in newDevices : MayEnroll(Inventory[k])}
        updated == [i \in 1..Len(devicesByInternalID) |->
            LET e == devicesByInternalID[i] IN
            IF \E k \in knownDevices : Inventory[k].uuid = e.dev.uuid
            THEN [e EXCEPT !.dev = updateFromHTTPState(e.dev,
                    Inventory[CHOOSE k \in knownDevices :
                                 Inventory[k].uuid = e.dev.uuid]).dev]
            ELSE e]
    IN
    /\ run.pc = "listing"
    /\ IF threw
       THEN /\ discoveries' = [discoveries EXCEPT ![r].pc = "done",
                                                  ![r].failed = TRUE]
            /\ UNCHANGED devicesByInternalID
       ELSE /\ discoveries' =
                 [discoveries EXCEPT
                    ![r].pc = IF awaited = {} THEN "done" ELSE "enrolling",
                    ![r].known = {Inventory[k].uuid : k \in knownDevices},
                    ![r].waiting = awaited]
            /\ devicesByInternalID' = updated
    /\ UNCHANGED <<now, connected, mqttConnectedAndSubscribed, pendingMessages,
                   calls, published, timers, deviceFactories, pushCallbacks,
                   pipelines, lastMessage, lastCall, subDevices>>

\* enrollNewDevice of run r resumes for inventory device k: on the
\* abilities it builds the device and enrolls it, on a CommandTimeout it
\* returns null, and another error fails the run.
EnrollNewDeviceResumes(r, k, outcome, abilities) ==
    LET run == discoveries[r]
        rest == run.waiting \ {k}
    IN
    /\ run.pc = "enrolling"
    /\ k \in run.waiting
    /\ IF outcome = "abilities"
       THEN /\ deviceFactories' =
                 lookupCachedType(deviceFactories, Inventory[k], abilities)
            /\ devicesByInternalID' =
                 enrollDevice(devicesByInternalID,
                    buildMerossDevice(deviceFactories, Inventory[k], abilities))
       ELSE UNCHANGED <<deviceFactories, devicesByInternalID>>
    /\ discoveries' =
          [discoveries EXCEPT
             ![r].pc = IF rest = {} THEN "done" ELSE "enrolling",
             ![r].waiting = rest,
             ![r].failed = run.failed \/ outcome = "error",
             ![r].enrolled = IF outcome = "abilities"
                             THEN run.enrolled \cup {Inventory[k].uuid}
                             ELSE run.enrolled]
    /\ UNCHANGED <<now, connected, mqttConnectedAndSubscribed, pendingMessages,
                   calls, published, timers, pushCallbacks, pipelines,
                   lastMessage, lastCall, subDevices>>

\* Devices a client may construct itself: the base class and the client's
\* own classes.
ClientDevices ==
    {BaseDevice(c, info.uuid, info) :
        c \in {"BaseDevice"} \cup ClientClasses, info \in HTTPDeviceInfos}

\* A client calls manager.deviceRegistry.enrollDevice(device).
EnrollDevice(device) ==
    /\ devicesByInternalID' = enrollDevice(devicesByInternalID, device)
    /\ lastCall' = [op |-> "enrollDevice", device |-> device,
                    before |-> devicesByInternalID, threw |-> FALSE]
    /\ UNCHANGED <<now, connected, mqttConnectedAndSubscribed, pendingMessages,
                   calls, published, timers, deviceFactories, pushCallbacks,
                   pipelines, lastMessage,
                   discoveries, subDevices>>

\* The devices of the registry's own clients: for each uuid, two objects
\* with the base library identifier and one with an identifier of its own.
RegistryDevices ==
    {BaseDevice(c, info.uuid, info) :
        c \in {"BaseDevice", "ConsumingDevice", "TaggedDevice"},
        info \in HTTPDeviceInfos}

RegistryIDs == {InternalIDOf(d) : d \in RegistryDevices} \cup {"//BASE:none"}

\* A client calls manager.deviceRegistry.relinquishDevice(deviceID).
RelinquishDevice(deviceID) ==
    LET r == relinquishDevice(devicesByInternalID, deviceID) IN
    /\ devicesByInternalID' = r.reg
    /\ lastCall' = [op |-> "relinquishDevice", deviceID |-> deviceID,
                    before |-> devicesByInternalID, threw |-> r.threw]
    /\ UNCHANGED <<now, connected, mqttConnectedAndSubscribed, pendingMessages,
                   calls, published, timers, deviceFactories, pushCallbacks,
                   pipelines, lastMessage,
                   discoveries, subDevices>>

\* A client calls manager.deviceRegistry.lookupByID(deviceID).
LookupByID(deviceID) ==
    /\ lastCall' = [op |-> "lookupByID", deviceID |-> deviceID,
                    before |-> devicesByInternalID, threw |-> FALSE,
                    result |-> lookupByID(devicesByInternalID, deviceID)]
    /\ UNCHANGED <<now, connected, mqttConnectedAndSubscribed, pendingMessages,
                   calls, published, timers, devicesByInternalID,
                   deviceFactories, pushCallbacks, pipelines, lastMessage,
                   discoveries, subDevices>>

\* A client calls manager.deviceRegistry.lookupByUUID(deviceUUID).
LookupByUUID(deviceUUID) ==
    LET r == lookupByUUID(devicesByInternalID, deviceUUID) IN
    /\ lastCall' = [op |-> "lookupByUUID", deviceUUID |-> deviceUUID,
                    before |-> devicesByInternalID, threw |-> r.threw,
                    result |-> r.result]
    /\ UNCHANGED <<now, connected, mqttConnectedAndSubscribed, pendingMessages,
                   calls, published, timers, devicesByInternalID,
                   deviceFactories, pushCallbacks, pipelines, lastMessage,
                   discoveries, subDevices>>

\* Devices that differ in name, type and online status.
FilterDevices ==
    {BaseDevice("BaseDevice", "X1",
        [dev_name |-> "plug", device_type |-> "mss310", fmware_version |-> "1.0",
         hdware_version |-> "2.0", online_status |-> ONLINE]),
     BaseDevice("BaseDevice", "X2",
        [dev_name |-> "lamp", device_type |-> "msl120", fmware_version |-> "1.0",
         hdware_version |-> "2.0", online_status |-> OFFLINE]),
     BaseDevice("TaggedDevice", "X1",
        [dev_name |-> "plug", device_type |-> "msl120", fmware_version |-> "1.0",
         hdware_version |-> "2.0", online_status |-> UNKNOWN])}

\* The filters objects a client may pass.
Filters ==
    [internalIDs : {Omitted, Str("//BASE:X1")},
     deviceUUIDs : {Omitted, Str(""), Str("X1"), List(<<>>), List(<<"X1", "X2">>)},
     deviceType : {Omitted, Str("msl120")},
     deviceName : {Omitted, Str(""), Str("plug")},
     onlineStatus : {Omitted, Num(ONLINE), Num(OFFLINE), Num(UNKNOWN)}]

\* A client calls manager.deviceRegistry.findAllBy(filters).
FindAllBy(filters) ==
    /\ lastCall' = [op |-> "findAllBy", filters |-> filters,
                    before |-> devicesByInternalID, threw |-> FALSE,
                    result |-> findAllBy(devicesByInternalID, filters)]
    /\ UNCHANGED <<now, connected, mqttConnectedAndSubscribed, pendingMessages,
                   calls, published, timers, devicesByInternalID,
                   deviceFactories, pushCallbacks, pipelines, lastMessage,
                   discoveries, subDevices>>

\* ------------------------------------------------------------ specification
\* The whole program.
Next ==
    \/ Tick
    \/ OnConnect
    \/ \E rc \in ResultCodes : OnDisconnect(rc)
    \/ \E u \in UUIDs, t \in Timeouts :
          executeCommand(u, "GET", SYSTEM_ABILITY, "{}", t)
    \/ \E i \in 1..Len(timers) : TimeoutFires(i)
    \/ \E i \in 1..Len(timers) : ResolveFires(i)
    \/ \E i \in 1..Len(timers) : RejectFires(i)
    \/ \E i \in 1..Len(timers) : DispatchFires(i)
    \/ \E p \in 1..Len(pipelines) : DeliveryResumes(p)
    \/ \E m \in InboundMessages : onMessage(m.topic, m.header, m.payload)
    \/ \E p \in 1..Len(pipelines), ok \in BOOLEAN : ObserverSettles(p, ok)
    \/ RegisterPushCallback
    \/ \E info \in HTTPDeviceInfos, ab \in AbilityLists : BuildAndEnroll(info, ab)

Spec == Init /\ [][Next]_vars

\* Spec's state space is the product of its parts'.  The claims are checked
\* on the parts below; every behaviour of a part is a behaviour of Spec.

\* Commands and their acknowledgements.
NextCommands ==
    \/ Tick
    \/ OnConnect
    \/ \E rc \in ResultCodes : OnDisconnect(rc)
    \/ \E t \in Timeouts : executeCommand("X1", "GET", SYSTEM_ABILITY, "{}", t)
    \/ \E i \in 1..Len(timers) : TimeoutFires(i)
    \/ \E i \in 1..Len(timers) : ResolveFires(i)
    \/ \E i \in 1..Len(timers) : RejectFires(i)
    \/ \E m \in InboundSignedAcks : onMessage(m.topic, m.header, m.payload)

SpecCommands == Init /\ [][NextCommands]_vars

\* Notifications, the registry and the observers.
NextNotifications ==
    \/ Tick
    \/ \E i \in 1..Len(timers) : DispatchFires(i)
    \/ \E p \in 1..Len(pipelines) : DeliveryResumes(p)
    \/ \E m \in InboundNotifications : onMessage(m.topic, m.header, m.payload)
    \/ \E p \in 1..Len(pipelines), ok \in BOOLEAN : ObserverSettles(p, ok)
    \/ RegisterPushCallback
    \/ \E info \in HTTPDeviceInfos : BuildAndEnroll(info, TheAbilities)

SpecNotifications == Init /\ [][NextNotifications]_vars

\* Every inbound message against pending commands, one device and no
\* observer.
NextInbound ==
    \/ Tick
    \/ OnConnect
    \/ \E t \in Timeouts : executeCommand("X1", "GET", SYSTEM_ABILITY, "{}", t)
    \/ \E i \in 1..Len(timers) : TimeoutFires(i)
    \/ \E i \in 1..Len(timers) : ResolveFires(i)
    \/ \E i \in 1..Len(timers) : RejectFires(i)
    \/ \E i \in 1..Len(timers) : DispatchFires(i)
    \/ \E p \in 1..Len(pipelines) : DeliveryResumes(p)
    \/ \E m \in InboundMessages : onMessage(m.topic, m.header, m.payload)
    \/ BuildAndEnroll(TheDevice, TheAbilities)

SpecInbound == Init /\ [][NextInbound]_vars

\* Delivery of notifications to the devices of a registry a client filled.
NextDispatch ==
    \/ Tick
    \/ \E d \in ClientDevices : EnrollDevice(d)
    \/ \E m \in InboundNotifications : onMessage(m.topic, m.header, m.payload)
    \/ \E i \in 1..Len(timers) : DispatchFires(i)
    \/ \E p \in 1..Len(pipelines) : DeliveryResumes(p)

SpecDispatch == Init /\ [][NextDispatch]_vars

\* The registry under the calls of its clients.
NextRegistry ==
    \/ \E d \in RegistryDevices : EnrollDevice(d)
    \/ \E id \in RegistryIDs : RelinquishDevice(id)
    \/ \E id \in RegistryIDs : LookupByID(id)
    \/ \E u \in UUIDs \cup {"X9"} : LookupByUUID(u)

SpecRegistry == Init /\ [][NextRegistry]_vars

\* Devices built from the library's own classes, all of which read the
\* internalID getter of BaseDevice.
LibraryDevices ==
    {BaseDevice(c, "X1", TheDevice) : c \in {"HubDevice", "GenericSubDevice"}}
        \cup {BaseDevice("BaseDevice", info.uuid, info) :
                 info \in HTTPDeviceInfos \ {TheDevice}}

\* The notifications that report a device as unbound.
InboundUnbinds ==
    {m \in InboundNotifications : m.header.namespace = CONTROL_UNBIND}

\* Everything that adds to the registry or removes from it: the calls of
\* clients, concurrent discovery runs and unbind notifications.
NextEnrollment ==
    \/ Tick
    \/ \E d \in LibraryDevices : EnrollDevice(d)
    \/ \E u \in UUIDs : RelinquishDevice(internalID(u))
    \/ \E f \in DiscoveryFilters : DeviceDiscovery(f)
    \/ \E r \in 1..Len(discoveries) : DiscoveryListed(r)
    \/ \E r \in 1..Len(discoveries), k \in 1..Len(Inventory),
          o \in EnrollOutcomes :
          EnrollNewDeviceResumes(r, k, o, TheAbilities)
    \/ \E m \in InboundUnbinds : onMessage(m.topic, m.header, m.payload)
    \/ \E i \in 1..Len(timers) : DispatchFires(i)
    \/ \E p \in 1..Len(pipelines) : DeliveryResumes(p)

SpecEnrollment == Init /\ [][NextEnrollment]_vars

\* The factory under calls for devices of two type names, with differing
\* ability lists.
NextFactory ==
    \/ \E info \in FactoryInfos, ab \in AbilityLists : BuildMerossDevice(info, ab)
    \/ \E info \in FactoryInfos, ab \in AbilityLists : BuildAndEnroll(info, ab)

SpecFactory == Init /\ [][NextFactory]_vars

\* Devices updated from HTTP records of their own and of another device.
NextUpdate ==
    \/ \E info \in HTTPDeviceInfos :
          EnrollDevice(BaseDevice("BaseDevice", info.uuid, info))
    \/ \E module \in DeviceModules, i \in 1..Len(devicesByInternalID),
          info \in UpdateInfos :
          UpdateFromHTTPState(module, i, info)

SpecUpdate == Init /\ [][NextUpdate]_vars

\* The hubs clients enroll: one of each connectivity status.
Hubs ==
    {BaseDevice("HubDevice", "X1", [TheDevice EXCEPT !.online_status = st]) :
        st \in {ONLINE, OFFLINE, UNKNOWN}}

\* A hub and the sub-devices clients register with it, update, query and
\* send commands through.
NextHub ==
    \/ OnConnect
    \/ \E h \in Hubs : EnrollDevice(h)
    \/ \E hubKey \in RegistryKeys(devicesByInternalID), u \in UUIDs,
          id \in SubDeviceIDs, config \in SubDeviceConfigs :
          RegisterSubDevice(hubKey, u, id, config)
    \/ \E hubKey \in DOMAIN subDevices, info \in UpdateInfos :
          \E i \in 1..Len(subDevices[hubKey]) : UpdateSubDevice(hubKey, i, info)
    \/ \E hubKey \in DOMAIN subDevices :
          \E i \in 1..Len(subDevices[hubKey]) : ReadOnlineStatus(hubKey, i)
    \/ \E hubKey \in DOMAIN subDevices :
          \E i \in 1..Len(subDevices[hubKey]) :
             DeviceExecuteCommand(subDevices[hubKey][i].dev, "GET",
                                  SYSTEM_ABILITY, "{}", 5)
    \/ \E hubKey \in DOMAIN subDevices, ns \in {Undefined, SYSTEM_DIGEST_HUB} :
          \E i \in 1..Len(subDevices[hubKey]) : SubDeviceUpdate(hubKey, i, ns)

SpecHub == Init /\ [][NextHub]_vars

\* The connection coming and going while devices of every status are
\* registered.
NextConnection ==
    \/ OnConnect
    \/ \E rc \in ResultCodes : OnDisconnect(rc)
    \/ \E d \in FilterDevices : EnrollDevice(d)

SpecConnection == Init /\ [][NextConnection]_vars

\* Two devices a notification from X1 targets: the library's, and one of a
\* client's class with an identifier of its own.
PipelineDevices ==
    {BaseDevice(c, "X1", TheDevice) : c \in {"BaseDevice", "TaggedDevice"}}

\* Notifications from the device X1.
InboundFromDevice ==
    {m \in InboundNotifications : m.header.from = SplitDeviceTopic("X1")}

\* Concurrent runs of the notification pipeline, with observers.
NextPipeline ==
    \/ Tick
    \/ \E d \in PipelineDevices : EnrollDevice(d)
    \/ RegisterPushCallback
    \/ \E m \in InboundFromDevice :
          onMessageWithin(MaxInFlight, m.topic, m.header, m.payload)
    \/ \E i \in 1..Len(timers) : DispatchFires(i)
    \/ \E p \in 1..Len(pipelines) : DeliveryResumes(p)
    \/ \E p \in 1..Len(pipelines), ok \in BOOLEAN : ObserverSettles(p, ok)

SpecPipeline == Init /\ [][NextPipeline]_vars

\* Validly signed acknowledgements on the response topic for the commands
\* in flight, and for one never sent.
OutstandingAcks ==
    {[topic |-> clientResponseTopic,
      header |-> InboundHeader(m, id, SYSTEM_ABILITY, SplitDeviceTopic("X1"),
                               SharedKey),
      payload |-> p] :
        m \in ACK_METHODS,
        id \in {md5(Nonce(n)) : n \in 1..MaxInFlight} \cup {md5("stale")},
        p \in Payloads}

\* Commands outstanding at the same time, and their acknowledgements in
\* any order.
NextOutstanding ==
    \/ Tick
    \/ OnConnect
    \/ \E u \in UUIDs, t \in Timeouts :
          executeCommandWithin(MaxInFlight, u, "GET", SYSTEM_ABILITY, "{}", t)
    \/ \E i \in 1..Len(timers) : TimeoutFires(i)
    \/ \E i \in 1..Len(timers) : ResolveFires(i)
    \/ \E i \in 1..Len(timers) : RejectFires(i)
    \/ \E m \in OutstandingAcks : onMessage(m.topic, m.header, m.payload)

SpecOutstanding == Init /\ [][NextOutstanding]_vars

\* The same commands under an event loop that runs: time passes while a
\* timer waits, and a timer that is due and next in line runs.
NextCompletion == NextOutstanding \/ TimePasses

SpecCompletion ==
    /\ Init
    /\ [][NextCompletion]_vars
    /\ WF_vars(TimePasses)
    /\ WF_vars(\E i \in 1..Len(timers) : TimeoutFires(i))
    /\ WF_vars(\E i \in 1..Len(timers) : ResolveFires(i))
    /\ WF_vars(\E i \in 1..Len(timers) : RejectFires(i))

\* The codec's parsePushNotification on the notifications a broker may
\* deliver.
NextParse ==
    \E ns \in PushNamespaces, m \in PushMessages,
       u \in UUIDs \cup {Undefined} :
        ParsePushNotification(ns, m, u)

SpecParse == Init /\ [][NextParse]_vars

\* Date.now() when the manager is constructed, around the boundaries of a
\* tenth of a second and of a second.
ClockStarts == {0, 99, 100, 999, 1000, 1999, 2000, 12345}

\* Commands sent at several clock readings, connected and not.
CommandArguments ==
    [namespace : {SYSTEM_ABILITY, CONTROL_TOGGLEX}, payload : {"{}", "p1"}]

NextEnvelope ==
    \/ OnConnect
    \/ \E rc \in ResultCodes : OnDisconnect(rc)
    \/ \E u \in UUIDs, t \in Timeouts, a \in CommandArguments :
          executeCommand(u, "GET", a.namespace, a.payload, t)

SpecEnvelope == (\E t \in ClockStarts : InitAt(t)) /\ [][NextEnvelope]_vars

\* Queries on a registry of devices that differ in every filtered property.
NextFind ==
    \/ \E d \in FilterDevices : EnrollDevice(d)
    \/ \E f \in Filters : FindAllBy(f)

SpecFind == Init /\ [][NextFind]_vars

\* ------------------------------------------------------------------ claims
\* A header signed as the protocol prescribes, with the shared key.
ValidlySigned(header) ==
    header.sign =
        Str(md5(header.messageId \o SharedKey \o ToString(header.timestamp)))

\* The step is the arrival of message m.
Arrives(m) == onMessage(m.topic, m.header, m.payload)

\* The step is an executeCommand call.
Called == Len(calls') = Len(calls) + 1

\* Run p of the notification pipeline ends in this step.
Finishes(p) ==
    /\ pipelines'[p].pc # "observers"
    /\ p <= Len(pipelines) => pipelines[p].pc = "observers"

\* C1: a call whose pending entry was matched by a validly signed SETACK or
\* GETACK on the response topic has lost that entry and returns the payload
\* of that acknowledgement: it is waiting for it, or has returned it.
C1_AckReturnsPayload ==
    \A c \in 1..Len(calls) :
        calls[c].ack.method \in {"SETACK", "GETACK"} =>
            /\ calls[c].messageId \notin DOMAIN pendingMessages
            /\ calls[c].status \in {"pending", "returned"}
            /\ calls[c].status = "returned" =>
                  calls[c].value = calls[c].ack.payload

\* C2: a call whose pending entry was matched by a validly signed ERROR on
\* the response topic has lost that entry, never returns a value, and fails
\* with the remote payload.
C2_ErrorFailsWithPayload ==
    \A c \in 1..Len(calls) :
        calls[c].ack.method = "ERROR" =>
            /\ calls[c].messageId \notin DOMAIN pendingMessages
            /\ calls[c].status \in {"pending", "RemoteError"}
            /\ calls[c].status = "RemoteError" =>
                  calls[c].value = calls[c].ack.payload

\* C3: once a call has failed with CommandTimeout, the pending table holds
\* no entry for its message identifier.
C3_TimeoutRemovesEntry ==
    \A c \in 1..Len(calls) :
        calls[c].status = "CommandTimeout" =>
            calls[c].messageId \notin DOMAIN pendingMessages

\* C4: a call with timeout T seconds that no acknowledgement matched does
\* not fail with CommandTimeout earlier than T seconds after the send.
C4_TimeoutNotBeforeT ==
    \A c \in 1..Len(calls) :
        (calls[c].status = "CommandTimeout" /\ calls[c].ack = NoAck) =>
            calls[c].doneAt - calls[c].sentAt >= calls[c].timeout * 1000

\* C5: an executeCommand call made while the transport is not connected
\* fails in the step of the call, publishes nothing and leaves the pending
\* table (and the timers) as they were.
C5_NotConnectedFailsAtOnce ==
    [][(Called /\ ~connected) =>
          /\ calls'[Len(calls')].status = "NotConnected"
          /\ UNCHANGED <<published, pendingMessages, timers>>]_vars

C5_Witness ==
    \E c \in 1..Len(calls) :
        /\ calls[c].status = "NotConnected"
        /\ published = <<>>

\* C6: the arrival of a message whose signature does not verify against the
\* shared key (a message of Forged) settles and removes no pending entry,
\* schedules and runs no notification dispatch (so no device handler and no
\* observer), and leaves the registry and the cache unchanged: a step either
\* leaves all of these alone or is not such an arrival.
Forged == {m \in InboundMessages : ~ValidlySigned(m.header)}

C6_InvalidSignatureNoEffect ==
    [][\/ UNCHANGED <<pendingMessages, calls, timers, pipelines,
                      devicesByInternalID, deviceFactories, published>>
       \/ \A m \in Forged : ~Arrives(m)]_vars

C6_Witness ==
    /\ lastMessage.log = "Invalid signature received"
    /\ lastMessage.messageId \in DOMAIN pendingMessages
    /\ devicesByInternalID # <<>>

\* C7: the arrival of a validly signed SETACK, GETACK or ERROR on the
\* response topic whose messageId is not in the pending table raises no
\* error, settles no call, and leaves the pending table, the registry and
\* the template cache unchanged.
Acknowledgements ==
    {m \in InboundMessages : /\ ValidlySigned(m.header)
                             /\ m.topic = clientResponseTopic
                             /\ m.header.method \in ACK_METHODS}

C7_UnknownAckDiscarded ==
    [][\/ /\ ~lastMessage'.threw
          /\ UNCHANGED <<pendingMessages, calls, timers,
                         devicesByInternalID, deviceFactories>>
       \/ \A m \in Acknowledgements :
             m.header.messageId \in DOMAIN pendingMessages \/ ~Arrives(m)]_vars

C7_Witness ==
    /\ lastMessage.log = "This message is an ACK"
    /\ lastMessage.messageId \notin DOMAIN pendingMessages
    /\ DOMAIN pendingMessages # {}
    /\ devicesByInternalID # <<>>
    /\ DOMAIN deviceFactories # {}

\* C8: the arrival of a validly signed message whose (topic, method) is
\* neither (response topic, SETACK/GETACK/ERROR) nor (the manager's account
\* notification topic, PUSH) settles and removes no pending entry, whatever
\* its messageId, schedules no notification dispatch, and does not throw.
OtherCombinations ==
    {m \in InboundMessages :
        /\ ValidlySigned(m.header)
        /\ ~(m.topic = clientResponseTopic /\ m.header.method \in ACK_METHODS)
        /\ ~(m.topic = userTopic /\ m.header.method = "PUSH")}

C8_OtherCombinationDiscarded ==
    [][\/ /\ ~lastMessage'.threw
          /\ UNCHANGED <<pendingMessages, calls, timers, pipelines,
                         devicesByInternalID>>
       \/ \A m \in OtherCombinations : ~Arrives(m)]_vars

C8_Witness ==
    /\ lastMessage.log = "does not handle messages"
    /\ lastMessage.messageId \in DOMAIN pendingMessages
    /\ devicesByInternalID # <<>>

\* C9: in the step that ends the processing of a notification with the
\* unbind namespace whose originating device is enrolled, every registry
\* entry with the originating UUID is removed, and lookupByID of that
\* device's library identifier finds nothing.
C9_UnbindRemovesDevice ==
    [][\A p \in 1..Len(pipelines') :
          LET uuid == pipelines'[p].notif.originatingDeviceUUID IN
          (/\ Finishes(p)
           /\ pipelines'[p].notif.namespace = CONTROL_UNBIND
           /\ \E k \in 1..Len(devicesByInternalID) :
                 devicesByInternalID[k].dev.uuid = uuid) =>
              /\ \A k \in 1..Len(devicesByInternalID') :
                    devicesByInternalID'[k].dev.uuid # uuid
              /\ lookupByID(devicesByInternalID', internalID(uuid)) = NoDevice]_vars

C9_Witness ==
    \E p \in 1..Len(pipelines) :
        /\ pipelines[p].pc = "done"
        /\ pipelines[p].notif.namespace = CONTROL_UNBIND
        /\ pipelines[p].targetDevs # <<>>
        /\ pipelines[p].notif.originatingDeviceUUID \in UUIDs
        /\ Len(pushCallbacks) = MaxObservers
        /\ devicesByInternalID # <<>>
        /\ \A k \in 1..Len(devicesByInternalID) :
              devicesByInternalID[k].dev.uuid
                 # pipelines[p].notif.originatingDeviceUUID

\* C10: when the processing of a notification ends, every registered
\* observer has been invoked once, in registration order, whether or not an
\* earlier observer failed.
C10_EveryObserverInvoked ==
    [][\A p \in 1..Len(pipelines') :
          Finishes(p) => pipelines'[p].invoked = pushCallbacks']_vars

\* C11: the devices dispatchPushNotification calls are the target devices in
\* order, none after a device whose handler returned true, and the loop stops
\* short of the last target only at a device whose handler returned true (a
\* handler that throws does not end it).
C11_FirstMatchWins ==
    \A p \in 1..Len(pipelines) :
        LET T == pipelines[p].targetDevs
            D == pipelines[p].delivered
            outcome(k) == handlePushNotification(T[k].dev,
                                                 pipelines[p].notif.namespace)
        IN ~pipelines[p].dispatching =>
           /\ Len(D) <= Len(T)
           /\ \A k \in 1..Len(D) : D[k] = T[k].id
           /\ \A k \in 1..(Len(D) - 1) : outcome(k) # "true"
           /\ Len(D) < Len(T) => (Len(D) >= 1 /\ outcome(Len(D)) = "true")
           /\ pipelines[p].handledDevice =
                 (\E k \in 1..Len(T) : outcome(k) = "true")

C11_Witness ==
    \E p \in 1..Len(pipelines) :
        /\ Len(pipelines[p].targetDevs) = 2
        /\ pipelines[p].targetDevs[1].dev.class = "FailingDevice"
        /\ pipelines[p].targetDevs[2].dev.class = "ConsumingDevice"
        /\ Len(pipelines[p].delivered) = 2
        /\ ~pipelines[p].dispatching
        /\ pipelines[p].handledDevice

\* C12: a notification whose processing has ended drew the 'uncaught push
\* notification' warning exactly when no target device consumed it and the
\* post-dispatch housekeeping did not handle it.
C12_UncaughtWarning ==
    \A p \in 1..Len(pipelines) :
        pipelines[p].pc = "done" =>
            (pipelines[p].warned <=>
                (~pipelines[p].handledDevice /\ ~pipelines[p].handledPost))

\* C13: after enrollDevice(D), in whatever state the registry was,
\* lookupByID(D.internalID) returns D.
C13_LookupAfterEnroll ==
    lastCall.op = "enrollDevice" =>
        lookupByID(devicesByInternalID, InternalIDOf(lastCall.device))
            = lastCall.device

\* C13, amended: after enrollDevice(D) on a registry where D.internalID was
\* not a key, lookupByID(D.internalID) returns D.
C13_LookupAfterFreshEnroll ==
    (/\ lastCall.op = "enrollDevice"
     /\ InternalIDOf(lastCall.device) \notin RegistryKeys(lastCall.before)) =>
        lookupByID(devicesByInternalID, InternalIDOf(lastCall.device))
            = lastCall.device

C13_Witness ==
    /\ lastCall.op = "enrollDevice"
    /\ lastCall.before # <<>>
    /\ InternalIDOf(lastCall.device) \notin RegistryKeys(lastCall.before)
    /\ lookupByID(devicesByInternalID, InternalIDOf(lastCall.device))
          = lastCall.device

\* C14: enrollDevice of a device whose library ID is already a key does not
\* throw and leaves the registry as it was, the earlier object still mapped
\* to that ID.
C14_DuplicateEnrollNoOp ==
    (/\ lastCall.op = "enrollDevice"
     /\ InternalIDOf(lastCall.device) \in RegistryKeys(lastCall.before)) =>
        /\ ~lastCall.threw
        /\ devicesByInternalID = lastCall.before
        /\ lookupByID(devicesByInternalID, InternalIDOf(lastCall.device))
              = lookupByID(lastCall.before, InternalIDOf(lastCall.device))

C14_Witness ==
    /\ lastCall.op = "enrollDevice"
    /\ InternalIDOf(lastCall.device) \in RegistryKeys(lastCall.before)
    /\ lookupByID(devicesByInternalID, InternalIDOf(lastCall.device))
          # lastCall.device

\* C15: relinquishDevice(id) with id a key removes that entry and leaves
\* every other entry as it was; with id not a key it throws and leaves the
\* registry as it was.
C15_RelinquishExactlyOne ==
    lastCall.op = "relinquishDevice" =>
        IF lastCall.deviceID \in RegistryKeys(lastCall.before)
        THEN /\ ~lastCall.threw
             /\ RegistryKeys(devicesByInternalID)
                   = RegistryKeys(lastCall.before) \ {lastCall.deviceID}
             /\ \A id \in RegistryKeys(devicesByInternalID) :
                   lookupByID(devicesByInternalID, id)
                      = lookupByID(lastCall.before, id)
        ELSE /\ lastCall.threw
             /\ devicesByInternalID = lastCall.before

C15_Witness ==
    /\ lastCall.op = "relinquishDevice"
    /\ lastCall.deviceID \in RegistryKeys(lastCall.before)
    /\ Len(lastCall.before) >= 3
    /\ Len(devicesByInternalID) = Len(lastCall.before) - 1

\* The registered devices whose native UUID is uuid, as registry positions.
Sharing(reg, uuid) == {k \in 1..Len(reg) : reg[k].dev.uuid = uuid}

\* C16: lookupByUUID(U) returns null and does not throw when no registered
\* device has native UUID U, returns the device and does not throw when
\* exactly one has it, and throws when two or more have it.
C16_LookupByUUID ==
    lastCall.op = "lookupByUUID" =>
        LET sharing == Sharing(lastCall.before, lastCall.deviceUUID)
        IN /\ sharing = {} => (~lastCall.threw /\ lastCall.result = Null)
           /\ Cardinality(sharing) = 1 =>
                 /\ ~lastCall.threw
                 /\ \A k \in sharing : lastCall.result = lastCall.before[k].dev
           /\ Cardinality(sharing) >= 2 => lastCall.threw

C16_Witness ==
    /\ lastCall.op = "lookupByUUID"
    /\ Cardinality(Sharing(lastCall.before, lastCall.deviceUUID)) >= 2
    /\ lastCall.threw

\* An entry satisfies every predicate the filters supply; a predicate left
\* out is true.
Satisfies(e, filters) ==
    /\ filters.internalIDs # Omitted => FlatIncludes(filters.internalIDs, e.id)
    /\ filters.deviceUUIDs # Omitted =>
          FlatIncludes(filters.deviceUUIDs, e.dev.uuid)
    /\ filters.deviceType # Omitted => e.dev.type = filters.deviceType.value
    /\ filters.deviceName # Omitted => e.dev.name = filters.deviceName.value
    /\ filters.onlineStatus # Omitted =>
          e.dev.online = filters.onlineStatus.value

\* C17: findAllBy(filters) returns exactly the registered devices that
\* satisfy every supplied predicate, whatever the supplied values; with no
\* filter it returns every registered device.
C17_FindAllByExact ==
    lastCall.op = "findAllBy" =>
        lastCall.result =
            SelectSeq(lastCall.before,
                      LAMBDA e : Satisfies(e, lastCall.filters))

CalledTypeName ==
    calculateDeviceTypeName(lastCall.deviceInfo.device_type,
                            lastCall.deviceInfo.hdware_version,
                            lastCall.deviceInfo.fmware_version)

\* C19: over any sequence of buildMerossDevice calls the template of a type
\* name is built once: a call whose type name is cached builds nothing and
\* constructs its device from the cached template, a call whose type name is
\* not cached adds exactly its own template, and no step replaces or
\* removes a cached template.
C19_TemplateBuiltOnce ==
    [][/\ \A k \in DOMAIN deviceFactories :
            /\ k \in DOMAIN deviceFactories'
            /\ deviceFactories'[k] = deviceFactories[k]
       /\ (lastCall' # lastCall /\ lastCall'.op = "buildMerossDevice") =>
            IF CalledTypeName' \in DOMAIN deviceFactories
            THEN /\ deviceFactories' = deviceFactories
                 /\ lastCall'.result.abilitiesSpec =
                       deviceFactories[CalledTypeName'].abilitiesSpec
                 /\ lastCall'.result.class =
                       deviceFactories[CalledTypeName'].baseClass
            ELSE /\ DOMAIN deviceFactories' =
                       DOMAIN deviceFactories \cup {CalledTypeName'}
                 /\ deviceFactories'[CalledTypeName'].abilitiesSpec =
                       lastCall'.abilities
                 /\ lastCall'.result.abilitiesSpec = lastCall'.abilities]_vars

\* A call found its type name cached by an earlier call that reported other
\* abilities.
C19_Witness ==
    /\ lastCall.op = "buildMerossDevice"
    /\ CalledTypeName \in DOMAIN lastCall.before
    /\ lastCall.before[CalledTypeName].abilitiesSpec # lastCall.abilities
    /\ Cardinality(DOMAIN deviceFactories) = 2

\* The categories the commented-out lines of _ABILITY_MATRIX name for the
\* two toggle abilities.
ToggleCategory == "ToggleMixin"
ToggleXCategory == "ToggleXMixin"

\* C20: a template built from an ability set that holds both
\* Appliance.Control.Toggle and Appliance.Control.ToggleX contains the
\* category of ToggleX and does not contain the category of Toggle.
C20_XVersionPreferred ==
    \A k \in DOMAIN deviceFactories :
        (/\ Includes(deviceFactories[k].abilitiesSpec, CONTROL_TOGGLE)
         /\ Includes(deviceFactories[k].abilitiesSpec, CONTROL_TOGGLEX))
        => /\ ToggleXCategory \in deviceFactories[k].mixins
           /\ ToggleCategory \notin deviceFactories[k].mixins

\* C21: updateFromHTTPState called with a record of another uuid fails with
\* an error and leaves every field of the device as it was.
C21_MismatchFailsUnchanged ==
    (/\ lastCall.op = "updateFromHTTPState"
     /\ lastCall.deviceInfo.uuid # lastCall.device.uuid)
    => /\ lastCall.threw
       /\ lastCall.result = lastCall.device

\* A record of another uuid, which differs from the device in name,
\* firmware version, status and channels, was refused.
C21_Witness ==
    /\ lastCall.op = "updateFromHTTPState"
    /\ lastCall.deviceInfo.uuid # lastCall.device.uuid
    /\ lastCall.deviceInfo.dev_name # lastCall.device.name
    /\ lastCall.deviceInfo.fmware_version # lastCall.device.firmwareVersion
    /\ lastCall.deviceInfo.online_status # lastCall.device.online
    /\ parseChannels(ChannelsOf(lastCall.deviceInfo)) # lastCall.device.channels
    /\ lastCall.threw

\* C22: after updateFromHTTPState succeeds, the device's name, channel
\* list, type, firmwareVersion, hardwareVersion and online status equal the
\* values of the record.
C22_UpdateCopiesRecord ==
    (lastCall.op = "updateFromHTTPState" /\ ~lastCall.threw)
    => /\ lastCall.result.name = lastCall.deviceInfo.dev_name
       /\ lastCall.result.channels =
             parseChannels(ChannelsOf(lastCall.deviceInfo))
       /\ lastCall.result.type = lastCall.deviceInfo.device_type
       /\ lastCall.result.firmwareVersion = lastCall.deviceInfo.fmware_version
       /\ lastCall.result.hardwareVersion = lastCall.deviceInfo.hdware_version
       /\ lastCall.result.online = lastCall.deviceInfo.online_status

\* C23: a sub-device's onlineStatus is OFFLINE whenever its hub's status is
\* not ONLINE, UNKNOWN included, and is the sub-device's own status when the
\* hub is ONLINE.
C23_SubDeviceStatus ==
    lastCall.op = "onlineStatus" =>
        lastCall.result = IF lastCall.hubStatus # ONLINE THEN OFFLINE
                          ELSE lastCall.device.online

\* C24: executeCommand invoked on a GenericSubDevice always fails and never
\* reaches the manager: where sub-devices are the only senders, no message
\* is published, no pending entry exists and the manager has seen no call.
C24_SubDeviceCommandFails ==
    /\ lastCall.op = "executeCommand" => lastCall.threw
    /\ published = <<>>
    /\ DOMAIN pendingMessages = {}
    /\ calls = <<>>

\* A sub-device was asked to send a command while the manager was connected.
C24_Witness ==
    /\ lastCall.op = "executeCommand"
    /\ lastCall.device.class = "GenericSubDevice"
    /\ lastCall.wasConnected

\* C25: in every state each sub-device identifier of a hub maps to at most
\* one sub-device, and registerSubDevice with an identifier already
\* registered does not throw and leaves the hub's mapping as it was.
C25_SubDeviceRegisteredOnce ==
    /\ \A hubKey \in DOMAIN subDevices :
          \A i, j \in 1..Len(subDevices[hubKey]) :
             i # j => subDevices[hubKey][i].id # subDevices[hubKey][j].id
    /\ (/\ lastCall.op = "registerSubDevice"
        /\ \E i \in 1..Len(lastCall.before) :
              lastCall.before[i].id = lastCall.subDevice.id)
       => /\ ~lastCall.threw
          /\ lastCall.result = lastCall.before

\* Another object was registered under an identifier the hub already held.
C25_Witness ==
    /\ lastCall.op = "registerSubDevice"
    /\ \E i \in 1..Len(lastCall.before) :
          /\ lastCall.before[i].id = lastCall.subDevice.id
          /\ lastCall.before[i].dev # lastCall.subDevice
    /\ Len(lastCall.before) = 2

\* C26: on subscribe-confirmed, onSubscribe calls update() on every
\* registered device, a failing update() is contained, so that onSubscribe
\* completes without raising, and the manager is marked connected and
\* subscribed.
C26_OnSubscribeContainsFailures ==
    lastCall.op = "onSubscribe" =>
        /\ lastCall.updated = [i \in 1..Len(devicesByInternalID) |->
                                 devicesByInternalID[i].id]
        /\ mqttConnectedAndSubscribed
        /\ ~lastCall.threw

SenderOf(k) ==
    CHOOSE c \in 1..Len(calls) :
        calls[c].messageId = published[k].message.header.messageId

\* C28: the timestamp in the header of every outbound envelope is the epoch
\* time in whole seconds, floor(currentTimeMillis / 1000), and the header's
\* sign is the digest of messageId, shared key and that timestamp.
C28_TimestampInSeconds ==
    \A k \in 1..Len(published) :
        LET header == published[k].message.header IN
        /\ header.timestamp = calls[SenderOf(k)].sentAt \div 1000
        /\ header.sign = Str(md5(header.messageId \o SharedKey \o
                                 ToString(header.timestamp)))

\* Account identifiers.
AccountIDs == {UserID, "77001"}

\* C29: for every account ID U, buildClientUserTopic(U) is
\* '/app/' + U + '/subscribe', so once the manager has subscribed, the
\* notification topic it subscribed to and compares inbound PUSH topics
\* against holds the account ID, and two account IDs yield different topics.
C29_UserTopicHoldsAccountID ==
    mqttConnectedAndSubscribed =>
        /\ \A U \in AccountIDs :
              buildClientUserTopic(U) = "/app/" \o U \o "/subscribe"
        /\ userTopic = "/app/" \o UserID \o "/subscribe"
        /\ \A U, V \in AccountIDs :
              U # V => buildClientUserTopic(U) # buildClientUserTopic(V)

\* Values a sign field may be changed to.
TamperedSigns(header) ==
    {Str(""), Str(md5("x")),
     Str(md5(header.messageId \o "forged" \o ToString(header.timestamp))),
     List(<<>>), List(<<header.sign.value>>),
     List(<<header.sign.value, header.sign.value>>)} \ {header.sign}

\* C30: verifyMessageSignature(header, key) is true exactly when header.sign
\* equals the digest of messageId, key and timestamp; so the header of
\* every envelope buildMQTTMessage produced verifies under the shared key,
\* and the same header with its sign changed to any other value does not.
C30_SignatureRoundTrip ==
    /\ \A m \in InboundMessages, key \in SignKeys :
          verifyMessageSignature(m.header, key) <=>
             m.header.sign = Str(md5(m.header.messageId \o key \o
                                     ToString(m.header.timestamp)))
    /\ \A k \in 1..Len(published) :
          LET header == published[k].message.header IN
          /\ verifyMessageSignature(header, SharedKey)
          /\ \A v \in TamperedSigns(header) :
                ~verifyMessageSignature([header EXCEPT !.sign = v], SharedKey)

\* C31: in a run of the pipeline, no target device's handler is called once
\* an observer has been invoked: device delivery is over before the first
\* observer callback.
C31_DeliveryBeforeObservers ==
    [][\A p \in 1..Len(pipelines) :
          Len(pipelines'[p].delivered) > Len(pipelines[p].delivered) =>
              pipelines[p].invoked = <<>>]_vars


\* C32: the arrival of a PUSH starts no pipeline and changes no registry
\* entry (its dispatch is deferred), and a deferred dispatch starts only when
\* no notification received before it still waits for its own: pipelines
\* start in arrival order.
C32_DispatchDeferredInOrder ==
    [][/\ \A m \in InboundFromDevice :
             onMessageWithin(MaxInFlight, m.topic, m.header, m.payload) =>
                 /\ pipelines' = pipelines
                 /\ devicesByInternalID' = devicesByInternalID
                 /\ Len(timers') = Len(timers) + 1
                 /\ timers'[Len(timers')].kind = "dispatch"
       /\ \A i \in 1..Len(timers) :
             (/\ Len(pipelines') = Len(pipelines) + 1
              /\ timers[i].kind = "dispatch"
              /\ timers' = RemoveAt(timers, i)
              /\ pipelines'[Len(pipelines')].notif = timers[i].notif) =>
                 \A j \in 1..(i - 1) :
                     timers[j].kind = "dispatch" =>
                         timers[j].notif = timers[i].notif]_vars

C32_Witness ==
    /\ Len(pipelines) = 2
    /\ pipelines[1].notif # pipelines[2].notif
    /\ pipelines[1].targetDevs # <<>>


\* C33: a call changes (it is matched by an acknowledgement, or completes)
\* only in a step that receives an acknowledgement carrying its own message
\* identifier or that runs a timer armed for it, and its pending entry goes
\* only in a step that receives an acknowledgement carrying its identifier:
\* nothing that happens to another command touches it.
C33_CommandsIndependent ==
    [][\A b \in 1..Len(calls) :
          /\ calls'[b] # calls[b] =>
                \/ /\ lastMessage'.messageId = calls[b].messageId
                   /\ Len(timers') = Len(timers) + 1
                   /\ timers'[Len(timers')].call = b
                \/ \E i \in 1..Len(timers) :
                      timers[i].call = b /\ timers' = RemoveAt(timers, i)
          /\ (/\ calls[b].messageId \in DOMAIN pendingMessages
              /\ calls[b].messageId \notin DOMAIN pendingMessages') =>
                lastMessage'.messageId = calls[b].messageId]_vars

\* Two commands in flight, the second acknowledged, the first untouched.
C33_Witness ==
    /\ Len(calls) = 2
    /\ calls[1].messageId # calls[2].messageId
    /\ calls[2].ack # NoAck
    /\ calls[1].ack = NoAck
    /\ calls[1].status = "pending"
    /\ calls[1].messageId \in DOMAIN pendingMessages
    /\ calls[2].messageId \notin DOMAIN pendingMessages


\* C34: every call that passed the connected check completes, whether or
\* not an acknowledgement arrives, and a call that has completed keeps its
\* outcome: no later step (a late or duplicate acknowledgement, a timer)
\* changes its status or value, and no message received then makes
\* onMessage throw.
C34_CompletesOnce ==
    /\ \A c \in 1..MaxInFlight :
          (Len(calls) >= c /\ calls[c].status = "pending")
              ~> (/\ Len(calls) >= c
                  /\ calls[c].status \in {"returned", "RemoteError",
                                          "CommandTimeout"})
    /\ [][\A c \in 1..Len(calls) :
              calls[c].status # "pending" =>
                  /\ calls'[c].status = calls[c].status
                  /\ calls'[c].value = calls[c].value
                  /\ calls'[c].doneAt = calls[c].doneAt
                  /\ ~lastMessage'.threw]_vars

\* A call that failed with CommandTimeout, whose acknowledgement was taken
\* from the pending table all the same and whose resolve has run.
C34_Witness ==
    \E c \in 1..Len(calls) :
        /\ calls[c].status = "CommandTimeout"
        /\ calls[c].ack.method \in {"SETACK", "GETACK"}
        /\ \A i \in 1..Len(timers) : timers[i].call # c


\* The bind section a notification carries: of the message's payload, or of
\* the payload itself.
BindSectionOf(payload) ==
    IF "payload" \in DOMAIN payload THEN payload.payload.bind
    ELSE payload.bind

CarriesBind(payload) ==
    IF "payload" \in DOMAIN payload THEN "bind" \in DOMAIN payload.payload
    ELSE "bind" \in DOMAIN payload

\* C35: the record parsePushNotification builds for the bind namespace
\* holds the time and hardware fields of the payload's bind section, and the
\* record it builds for any other namespace holds namespace, originating
\* UUID and raw data only.
C35_BindFieldsDerived ==
    (/\ lastCall.op = "parsePushNotification"
     /\ lastCall.namespace # Undefined) =>
        /\ ~lastCall.threw
        /\ IF lastCall.namespace = CONTROL_BIND /\ CarriesBind(lastCall.payload)
           THEN /\ {"time", "hardware"} \subseteq DOMAIN lastCall.result
                /\ lastCall.result.time.timezone
                      = BindSectionOf(lastCall.payload).time.timezone
                /\ lastCall.result.hardware.version
                      = BindSectionOf(lastCall.payload).hardware.version
           ELSE DOMAIN lastCall.result
                   = {"namespace", "originatingDeviceUUID", "rawData"}


\* C36: the envelope an executeCommand call publishes carries, in its
\* header, the namespace the caller passed, and as its payload the payload
\* the caller passed.
C36_EnvelopeCarriesNamespace ==
    [][\A u \in UUIDs, t \in Timeouts, a \in CommandArguments :
          (/\ connected
           /\ executeCommand(u, "GET", a.namespace, a.payload, t)) =>
              LET message == published'[Len(published')].message IN
              /\ message.header.namespace = a.namespace
              /\ message.payload = a.payload]_vars


\* The inventory record of the device uuid.
InventoryRecord(uuid) ==
    Inventory[CHOOSE k \in 1..Len(Inventory) : Inventory[k].uuid = uuid]

\* C37: a discovery run asks for the abilities of, and enrolls, only devices
\* whose inventory record reports ONLINE; a record reporting OFFLINE or
\* UNKNOWN is passed over.  A step in which a run enrolls a device adds to
\* the registry only entries whose status is ONLINE.
C37_OnlyOnlineEnrolled ==
    /\ [](\A r \in 1..Len(discoveries) :
            /\ \A k \in discoveries[r].waiting :
                  Inventory[k].online_status = ONLINE
            /\ \A u \in discoveries[r].enrolled :
                  InventoryRecord(u).online_status = ONLINE)
    /\ [][\A r \in 1..Len(discoveries) :
              discoveries'[r].enrolled # discoveries[r].enrolled =>
                  \A i \in 1..Len(devicesByInternalID') :
                      devicesByInternalID'[i].id
                            \notin RegistryKeys(devicesByInternalID) =>
                          devicesByInternalID'[i].dev.online = ONLINE]_vars

\* A finished run over the whole inventory that found every device new:
\* the online one is enrolled, the others are in the registry no more than
\* before.
C37_Witness ==
    \E r \in 1..Len(discoveries) :
        /\ discoveries[r].pc = "done"
        /\ discoveries[r].filter = NullUUID
        /\ discoveries[r].known = {}
        /\ discoveries[r].enrolled = {"X1"}
        /\ RegistryKeys(devicesByInternalID) = {internalID("X1")}


\* The ability list the template of the called type name captured: that of
\* the call that built it, which is this call only if none was cached.
CapturedAbilities ==
    IF CalledTypeName \in DOMAIN lastCall.before
    THEN lastCall.before[CalledTypeName].abilitiesSpec
    ELSE lastCall.abilities

\* C38: the device buildMerossDevice returns has the abilitiesSpec its
\* type name's template captured when it was built, and the base kind (hub
\* or generic) that ability list decides, whatever abilities the call itself
\* reports.
C38_TemplateDecidesKind ==
    lastCall.op = "buildMerossDevice" =>
        /\ lastCall.result.abilitiesSpec = CapturedAbilities
        /\ lastCall.result.class =
              IF Includes(CapturedAbilities, SYSTEM_DIGEST_HUB)
              THEN "HubDevice" ELSE "BaseDevice"

\* A device reporting the hub-digest ability, built from a template that a
\* device without it had cached: it is a generic device with the other's
\* abilities.
C38_Witness ==
    /\ lastCall.op = "buildMerossDevice"
    /\ CalledTypeName \in DOMAIN lastCall.before
    /\ Includes(lastCall.abilities, SYSTEM_DIGEST_HUB)
    /\ lastCall.result.class = "BaseDevice"
    /\ lastCall.result.abilitiesSpec # lastCall.abilities


\* C39: no run of the pipeline fails in its post-dispatch housekeeping,
\* however the runs interleave: the housekeeping releases only devices it
\* has just found in the registry.  The step that ends the run of an unbind
\* notification leaves the registry without the devices of the originating
\* UUID and with every other entry, so a run that ends after another has
\* released the device changes nothing.
C39_ConcurrentUnbindsSafe ==
    /\ [](\A p \in 1..Len(pipelines) : pipelines[p].pc # "failed")
    /\ [][\A p \in 1..Len(pipelines') :
              (Finishes(p) /\ pipelines'[p].notif.namespace = CONTROL_UNBIND) =>
                  devicesByInternalID' =
                      SelectSeq(devicesByInternalID, LAMBDA e :
                          e.dev.uuid
                             # pipelines'[p].notif.originatingDeviceUUID)]_vars

\* Two unbind notifications for the same enrolled device, both dispatched
\* while it was enrolled and both awaiting an observer when the first run
\* ended and released it; the second run has yet to end.
C39_Witness ==
    /\ Len(pipelines) = 2
    /\ \A p \in 1..2 :
          /\ pipelines[p].notif.namespace = CONTROL_UNBIND
          /\ pipelines[p].notif.originatingDeviceUUID = "X1"
          /\ pipelines[p].targetDevs # <<>>
          /\ pipelines[p].invoked # <<>>
    /\ \E p, q \in 1..2 :
          pipelines[p].pc = "done" /\ pipelines[q].pc = "observers"
    /\ devicesByInternalID = <<>>


====
